---------------------------- MODULE Spec2Model ----------------------------
(***************************************************************************)
(* A model of the Cisco APIC extension of group-based-policy:              *)
(*   - the attribute validators of extensions/cisco_apic.py,               *)
(*   - the ApicExtensionDriver hooks of apic_aim/extension_driver.py,      *)
(*   - the Alembic migration 68fcb81878c5,                                 *)
(*   - the Nova polling client of apic_aim/nova_client.py.                 *)
(* Each component has its own specification over the shared variables.     *)
(***************************************************************************)
EXTENDS Integers, Sequences, FiniteSets, TLC

VARIABLES
    vFn,        \* validators: name of the validator called last ("" before any)
    vIn,        \* validators: the data it was called with
    vOut,       \* validators: what the call did (returned None, a message, or raised)
    address_scopes,     \* Neutron's address scopes: id -> ip_version
    mappings,           \* the address-scope mapping table: rows [scope_id, vrf, vrf_owned]
    port_extn,          \* the port extension table: port id -> stored attributes
    subnet_extn,        \* the subnet extension table: subnet id -> stored attributes
    network_extn,       \* the network extension table: network id -> stored attributes
    _mechanism_driver,  \* ApicExtensionDriver._mechanism_driver
    call,               \* the hook called last: its arguments and what it did
    mig,                \* the migration: the table's schema and rows, and upgrade()'s position
    nova                \* nova_client: the module's client handle and the last call

validVars == <<vFn, vIn, vOut>>
driverVars ==
    <<address_scopes, mappings, port_extn, subnet_extn, network_extn, _mechanism_driver, call>>

vars == <<vFn, vIn, vOut, address_scopes, mappings, port_extn, subnet_extn, network_extn,
          _mechanism_driver, call, mig, nova>>

(***************************************************************************)
(* Python values.  Every value is a tagged record, so that values of       *)
(* different Python types can sit in one list or dict.                     *)
(*   None            [t |-> "none"]                                        *)
(*   int n           [t |-> "int",   i |-> n]                              *)
(*   bool b          [t |-> "bool",  b |-> b]                              *)
(*   float k/2       [t |-> "float", h |-> k]     (halves are enough to    *)
(*                                                 see int() truncate)     *)
(*   float('inf')    [t |-> "inf"]                                         *)
(*   str             [t |-> "str",   s |-> <<characters>>]                 *)
(*   list            [t |-> "list",  l |-> <<values>>]                     *)
(*   dict            [t |-> "dict",  d |-> [keys -> values]]               *)
(***************************************************************************)
PyNone == [t |-> "none"]
PyInt(n) == [t |-> "int", i |-> n]
PyBool(b) == [t |-> "bool", b |-> b]
PyFloat(k) == [t |-> "float", h |-> k]
PyInf == [t |-> "inf"]
PyStr(s) == [t |-> "str", s |-> s]
PyList(l) == [t |-> "list", l |-> l]
PyDict(d) == [t |-> "dict", d |-> d]

EmptyDict == [k \in {} |-> PyNone]

\* What a call does: it returns None, returns a message, or raises.
RetNone == [k |-> "none"]
RetMsg(m) == [k |-> "msg", m |-> m]
Raises(e) == [k |-> "raise", e |-> e]

Digits == {"0", "1", "2", "3", "4", "5", "6", "7", "8", "9"}

DigitVal(c) ==
    CASE c = "0" -> 0 [] c = "1" -> 1 [] c = "2" -> 2 [] c = "3" -> 3
      [] c = "4" -> 4 [] c = "5" -> 5 [] c = "6" -> 6 [] c = "7" -> 7
      [] c = "8" -> 8 [] c = "9" -> 9

RECURSIVE StripLeft(_)
StripLeft(s) ==
    IF s # <<>> /\ Head(s) = " " THEN StripLeft(Tail(s)) ELSE s

RECURSIVE StripRight(_)
StripRight(s) ==
    IF s # <<>> /\ s[Len(s)] = " "
    THEN StripRight(SubSeq(s, 1, Len(s) - 1)) ELSE s

RECURSIVE DigitsVal(_, _)
DigitsVal(s, acc) ==
    IF s = <<>> THEN acc ELSE DigitsVal(Tail(s), 10 * acc + DigitVal(Head(s)))

AllDigits(s) == s # <<>> /\ \A n \in 1..Len(s) : s[n] \in Digits

\* int(<str>): surrounding blanks are stripped, one sign is allowed, the rest
\* must be decimal digits; anything else is a ValueError.
ParseIntStr(s) ==
    LET b == StripRight(StripLeft(s))
        signed == b # <<>> /\ Head(b) \in {"+", "-"}
        ds == IF signed THEN Tail(b) ELSE b
    IN  IF AllDigits(ds)
        THEN [ok |-> TRUE,
              v |-> IF signed /\ Head(b) = "-" THEN 0 - DigitsVal(ds, 0)
                    ELSE DigitsVal(ds, 0)]
        ELSE [ok |-> FALSE, e |-> "ValueError"]

\* Python's int(data): [ok |-> TRUE, v |-> n] or [ok |-> FALSE, e |-> exception].
PyIntOf(data) ==
    CASE data.t = "int" -> [ok |-> TRUE, v |-> data.i]
      [] data.t = "bool" -> [ok |-> TRUE, v |-> IF data.b THEN 1 ELSE 0]
      [] data.t = "float" ->
            [ok |-> TRUE,
             v |-> IF data.h >= 0 THEN data.h \div 2 ELSE 0 - ((0 - data.h) \div 2)]
      [] data.t = "inf" -> [ok |-> FALSE, e |-> "OverflowError"]
      [] data.t = "str" -> ParseIntStr(data.s)
      [] OTHER -> [ok |-> FALSE, e |-> "TypeError"]

(***************************************************************************)
(* extensions/cisco_apic.py: the validators                                *)
(***************************************************************************)
APIC_MAX_VLAN == 4093
APIC_MIN_VLAN == 1

VLAN_RANGE_START == "start"
VLAN_RANGE_END == "end"
ERSPAN_DEST_IP == "dest_ip"
ERSPAN_FLOW_ID == "flow_id"
ERSPAN_DIRECTION == "direction"

ValidateApicVlan_NoUpperBound(data) ==
    IF data = PyNone THEN RetNone
    ELSE LET r == PyIntOf(data)
         IN  IF r.ok
             THEN IF r.v >= APIC_MIN_VLAN
                  THEN RetNone
                  ELSE RetMsg("Invalid value for VLAN")
             ELSE IF r.e \in {"ValueError", "TypeError"}
                  THEN RetMsg("Invalid data format for VLAN")
                  ELSE Raises(r.e)

_validate_apic_vlan(data) ==
    IF data = PyNone THEN RetNone
    ELSE LET r == PyIntOf(data)
         IN  IF r.ok
             THEN IF r.v >= APIC_MIN_VLAN /\ r.v <= APIC_MAX_VLAN
                  THEN RetNone
                  ELSE RetMsg("Invalid value for VLAN")
             ELSE IF r.e \in {"ValueError", "TypeError"}
                  THEN RetMsg("Invalid data format for VLAN")
                  ELSE Raises(r.e)


\* neutron_lib validators._verify_dict_keys(expected_keys, target_dict, strict)
VerifyDictKeys(expected_keys, target_dict, strict) ==
    IF target_dict.t # "dict"
    THEN RetMsg("Invalid input: must be a dictionary with the expected keys")
    ELSE IF (IF strict THEN expected_keys = DOMAIN target_dict.d
             ELSE expected_keys \subseteq DOMAIN target_dict.d)
         THEN RetNone
         ELSE RetMsg("Validation of dictionary's keys failed")

\* neutron_lib validators.validate_non_negative(data): it catches ValueError and
\* TypeError of int(data) only.
ValidateNonNegative(data) ==
    LET r == PyIntOf(data)
    IN  IF ~r.ok
        THEN IF r.e \in {"ValueError", "TypeError"}
             THEN RetMsg("is not an integer")
             ELSE Raises(r.e)
        ELSE IF r.v < 0 THEN RetMsg("should be non-negative") ELSE RetNone

_validate_apic_vlan_range(data) ==
    IF data = PyNone THEN RetNone
    ELSE LET km == VerifyDictKeys({VLAN_RANGE_START, VLAN_RANGE_END}, data, TRUE)
         IN  IF km # RetNone THEN km
             ELSE LET ms == _validate_apic_vlan(data.d[VLAN_RANGE_START])
                      me == _validate_apic_vlan(data.d[VLAN_RANGE_END])
                  IN  IF ms # RetNone THEN ms
                      ELSE IF me # RetNone THEN me
                      ELSE LET s == PyIntOf(data.d[VLAN_RANGE_START])
                               e == PyIntOf(data.d[VLAN_RANGE_END])
                           IN  \* int(data[start]) > int(data[end]), outside any try
                               IF ~s.ok THEN Raises(s.e)
                               ELSE IF ~e.ok THEN Raises(e.e)
                               ELSE IF s.v > e.v
                                    THEN RetMsg("Invalid start, end for VLAN range")
                                    ELSE RetNone

ValidateErspanFlowId_Inclusive(data) ==
    IF data = PyNone THEN RetNone
    ELSE LET msg == ValidateNonNegative(data)
             r == PyIntOf(data)
         IN  IF msg.k = "raise" THEN msg
             ELSE IF ~r.ok THEN Raises(r.e)
             ELSE IF r.v > 1024
                  THEN RetMsg("ERSPAN flow ID must be less than 1023")
             ELSE IF r.v = 0
                  THEN RetMsg("ERSPAN flow ID must be greater than 0")
             ELSE msg

_validate_erspan_flow_id(data) ==
    IF data = PyNone THEN RetNone
    ELSE LET msg == ValidateNonNegative(data)
             r == PyIntOf(data)
         IN  IF msg.k = "raise" THEN msg
             \* int(data) again, outside any try
             ELSE IF ~r.ok THEN Raises(r.e)
             ELSE IF r.v > 1023
                  THEN RetMsg("ERSPAN flow ID must be less than 1023")
             ELSE IF r.v = 0
                  THEN RetMsg("ERSPAN flow ID must be greater than 0")
             ELSE msg

\* str.split('.')
RECURSIVE SplitDots(_, _)
SplitDots(s, cur) ==
    IF s = <<>> THEN <<cur>>
    ELSE IF Head(s) = "." THEN <<cur>> \o SplitDots(Tail(s), <<>>)
    ELSE SplitDots(Tail(s), Append(cur, Head(s)))

\* neutron_lib validators.validate_ip_address(data) on IPv4 text: four decimal
\* octets without leading zeros; every failure, of any kind, becomes a message.
ValidateIpAddress(data) ==
    IF data.t # "str" THEN RetMsg("is not a valid IP address")
    ELSE LET parts == SplitDots(data.s, <<>>)
         IN  IF /\ Len(parts) = 4
                /\ \A n \in 1..4 :
                      /\ AllDigits(parts[n])
                      /\ DigitsVal(parts[n], 0) <= 255
                      /\ (Len(parts[n]) > 1 => Head(parts[n]) # "0")
             THEN RetNone
             ELSE RetMsg("is not a valid IP address")

\* Python's == on the scalars met here: numbers compare by value across int,
\* bool and float; everything else by type and content.
IsNumber(v) == v.t \in {"int", "bool", "float"}
Halves(v) ==
    CASE v.t = "int" -> 2 * v.i
      [] v.t = "bool" -> IF v.b THEN 2 ELSE 0
      [] v.t = "float" -> v.h
PyEq(a, b) == IF IsNumber(a) /\ IsNumber(b) THEN Halves(a) = Halves(b) ELSE a = b

\* dict == dict
DictEq(a, b) ==
    /\ a.t = "dict" /\ b.t = "dict"
    /\ DOMAIN a.d = DOMAIN b.d
    /\ \A k \in DOMAIN a.d : PyEq(a.d[k], b.d[k])

\* The for loop of _validate_erspan_configs; erspan_configs are the entries seen.
RECURSIVE ErspanLoop(_, _)
ErspanLoop(rest, erspan_configs) ==
    IF rest = <<>> THEN RetNone
    ELSE LET erspan_config == Head(rest)
             km == VerifyDictKeys({ERSPAN_DEST_IP, ERSPAN_FLOW_ID}, erspan_config, FALSE)
         IN  IF km # RetNone THEN km
             ELSE LET fm == _validate_erspan_flow_id(erspan_config.d[ERSPAN_FLOW_ID])
                      im == ValidateIpAddress(erspan_config.d[ERSPAN_DEST_IP])
                  IN  IF fm # RetNone THEN fm
                      ELSE IF im # RetNone THEN im
                      ELSE IF \E n \in 1..Len(erspan_configs) :
                                  DictEq(erspan_config, erspan_configs[n])
                           THEN RetMsg("Duplicate ERSPAN config")
                      ELSE ErspanLoop(Tail(rest), Append(erspan_configs, erspan_config))

_validate_erspan_configs(data) ==
    IF data.t # "list"
    THEN RetMsg("Invalid data format for ERSPAN config")
    ELSE ErspanLoop(data.l, <<>>)


VLANS_LIST == "vlans_list"
VLAN_RANGES == "vlan_ranges"

\* ast.literal_eval(text): a dict display, an integer literal or None evaluate;
\* any other text raises (SyntaxError or ValueError).
LiteralEval(s) ==
    IF s = <<"{", "}">> THEN [ok |-> TRUE, v |-> PyDict(EmptyDict)]
    ELSE IF s = <<"N", "o", "n", "e">> THEN [ok |-> TRUE, v |-> PyNone]
    ELSE IF AllDigits(s) THEN [ok |-> TRUE, v |-> PyInt(DigitsVal(s, 0))]
    ELSE [ok |-> FALSE, e |-> "SyntaxError"]

ValEq(a, b) == IF a.t = "dict" /\ b.t = "dict" THEN DictEq(a, b) ELSE PyEq(a, b)

\* The validators registered as type:apic_vlan_list and type:apic_vlan_range_list
\* wrap the item validators below in neutron_lib's _validate_list_of_items.
ItemValidate(which, item) ==
    IF which = "apic_vlan" THEN _validate_apic_vlan(item)
    ELSE _validate_apic_vlan_range(item)

RECURSIVE ItemsLoop(_, _)
ItemsLoop(which, items) ==
    IF items = <<>> THEN RetNone
    ELSE LET m == ItemValidate(which, Head(items))
         IN  IF m # RetNone THEN m ELSE ItemsLoop(which, Tail(items))

ValidateListOfItems(which, data) ==
    IF data.t # "list" THEN RetMsg("is not a list")
    ELSE IF \E m, n \in 1..Len(data.l) : m < n /\ ValEq(data.l[m], data.l[n])
         THEN RetMsg("Duplicate items in the list")
         ELSE ItemsLoop(which, data.l)

\* neutron_lib validators.validate_dict(data, key_specs) with the key_specs of
\* apic:nested_domain_allowed_vlans; a missing key is validated as None.
DictGet(data, key) == IF key \in DOMAIN data.d THEN data.d[key] ELSE PyNone

ValidateDict(data, key_specs) ==
    IF data.t # "dict" THEN RetMsg("is not a dictionary")
    ELSE IF key_specs = "None" THEN RetNone
    ELSE IF ~(DOMAIN data.d \subseteq {VLANS_LIST, VLAN_RANGES})
         THEN RetMsg("Unexpected keys supplied")
    ELSE LET ml == IF VLANS_LIST \in DOMAIN data.d
                   THEN ValidateListOfItems("apic_vlan", DictGet(data, VLANS_LIST))
                   ELSE RetNone
             mr == IF VLAN_RANGES \in DOMAIN data.d
                   THEN ValidateListOfItems("apic_vlan_range", DictGet(data, VLAN_RANGES))
                   ELSE RetNone
         IN  IF ml # RetNone THEN ml ELSE mr

_validate_dict_or_string(data, key_specs) ==
    IF data = PyNone THEN RetNone
    ELSE IF data.t = "str"
         THEN LET r == LiteralEval(data.s)
              IN  IF ~r.ok THEN RetMsg("Extension cannot be converted to dict")
                  ELSE IF r.v = PyNone THEN RetNone
                  ELSE ValidateDict(r.v, key_specs)
         ELSE ValidateDict(data, key_specs)


(***************************************************************************)
(* The values the validators are called with.                              *)
(***************************************************************************)
IntBound == 4100
MaxConfigs == 2
MaxVlans == 2

Absent == [t |-> "absent"]

StrInputs ==
    { <<>>, <<"0">>, <<"1">>, <<"5">>, <<"-", "1">>, <<"+", "3">>, <<" ", "7", " ">>,
      <<"1", "0", "2", "3">>, <<"1", "0", "2", "4">>,
      <<"4", "0", "9", "3">>, <<"4", "0", "9", "4">>,
      <<"1", ".", "5">>, <<"a", "b", "c">>, <<"{", "}">>, <<"N", "o", "n", "e">> }

FloatInputs == {-3, -1, 0, 1, 2, 3, 2046, 2047, 2048, 2049, 8186, 8187, 8188, 8189}

ScalarInputs ==
    {PyNone, PyBool(TRUE), PyBool(FALSE), PyList(<<>>), PyDict(EmptyDict)}
      \cup {PyInt(n) : n \in (0 - IntBound)..IntBound}
      \cup {PyFloat(k) : k \in FloatInputs}
      \cup {PyStr(s) : s \in StrInputs}

\* A dict of the present ones among up to four keys.
MkDict(k1, v1, k2, v2, k3, v3, k4, v4) ==
    PyDict([k \in {x \in {k1, k2, k3, k4} :
                     (CASE x = k1 -> v1 [] x = k2 -> v2 [] x = k3 -> v3 [] x = k4 -> v4)
                        # Absent}
              |-> CASE k = k1 -> v1 [] k = k2 -> v2 [] k = k3 -> v3 [] k = k4 -> v4])

VlanItems ==
    {PyNone, PyInt(1), PyInt(5), PyInt(4093), PyInt(4094), PyStr(<<"5">>),
     PyStr(<<"a", "b", "c">>)}

RangeInputs ==
    {PyNone, PyInt(5), PyList(<<>>)}
      \cup {MkDict(VLAN_RANGE_START, a, VLAN_RANGE_END, b, "step", c, "unused", Absent) :
              a \in VlanItems \cup {Absent}, b \in VlanItems \cup {Absent},
              c \in {Absent, PyInt(1)}}

ErspanEntries ==
    {PyInt(7)}
      \cup {MkDict(ERSPAN_DEST_IP, ip, ERSPAN_FLOW_ID, fl, ERSPAN_DIRECTION, dr, "extra", ex) :
              ip \in {Absent, PyStr(<<"1", ".", "1", ".", "1", ".", "1">>),
                      PyStr(<<"b", "a", "d">>)},
              fl \in {PyInt(1), PyInt(2), PyStr(<<"a", "b", "c">>)},
              dr \in {Absent, PyStr(<<"i", "n">>), PyStr(<<"b", "o", "t", "h">>)},
              ex \in {Absent, PyInt(1)}}

ErspanInputs ==
    {PyNone, PyInt(5), PyStr(<<"a", "b", "c">>), PyDict(EmptyDict)}
      \cup {PyList(l) : l \in UNION {[1..n -> ErspanEntries] : n \in 0..MaxConfigs}}

AllowedVlansInputs ==
    {PyNone, PyInt(5), PyStr(<<"{", "}">>), PyStr(<<"a", "b", "c">>),
     PyStr(<<"N", "o", "n", "e">>), PyStr(<<"1", "2">>),
     MkDict("other", PyInt(1), "u2", Absent, "u3", Absent, "u4", Absent)}
      \cup {MkDict(VLANS_LIST, vl, VLAN_RANGES, vr, "u3", Absent, "u4", Absent) :
              vl \in {Absent, PyInt(3)}
                       \cup {PyList(l) : l \in UNION {[1..n -> VlanItems] : n \in 0..MaxVlans}},
              vr \in {Absent, PyList(<<>>),
                      PyList(<<MkDict(VLAN_RANGE_START, PyInt(1), VLAN_RANGE_END, PyInt(5),
                                      "u3", Absent, "u4", Absent)>>),
                      PyList(<<MkDict(VLAN_RANGE_START, PyNone, VLAN_RANGE_END, PyInt(5),
                                      "u3", Absent, "u4", Absent)>>),
                      PyList(<<PyInt(1)>>)}}

ValidatorInputs ==
    ScalarInputs \cup RangeInputs \cup ErspanInputs \cup AllowedVlansInputs

NotCalled == [k |-> "pending"]

(***************************************************************************)
(* The request-validation layer holds an attribute value (vIn) and calls   *)
(* the validator registered for it, once.  One action per validator.       *)
(***************************************************************************)
CallValidateApicVlan ==
    /\ vFn = ""
    /\ vIn \in ScalarInputs
    /\ vFn' = "_validate_apic_vlan"
    /\ vOut' = _validate_apic_vlan(vIn)
    /\ UNCHANGED <<vIn, driverVars, mig, nova>>

CallValidateApicVlanRange ==
    /\ vFn = ""
    /\ vIn \in RangeInputs
    /\ vFn' = "_validate_apic_vlan_range"
    /\ vOut' = _validate_apic_vlan_range(vIn)
    /\ UNCHANGED <<vIn, driverVars, mig, nova>>

CallValidateErspanFlowId ==
    /\ vFn = ""
    /\ vIn \in ScalarInputs
    /\ vFn' = "_validate_erspan_flow_id"
    /\ vOut' = _validate_erspan_flow_id(vIn)
    /\ UNCHANGED <<vIn, driverVars, mig, nova>>

CallValidateErspanConfigs ==
    /\ vFn = ""
    /\ vIn \in ErspanInputs
    /\ vFn' = "_validate_erspan_configs"
    /\ vOut' = _validate_erspan_configs(vIn)
    /\ UNCHANGED <<vIn, driverVars, mig, nova>>

CallValidateDictOrString ==
    /\ vFn = ""
    /\ vIn \in AllowedVlansInputs
    /\ \E key_specs \in {"None", "allowed_vlans"} :
          /\ vFn' = "_validate_dict_or_string"
          /\ vOut' = _validate_dict_or_string(vIn, key_specs)
    /\ UNCHANGED <<vIn, driverVars, mig, nova>>

(***************************************************************************)
(* apic_aim/extension_driver.py: ApicExtensionDriver                       *)
(***************************************************************************)
DIST_NAMES == "apic:distinguished_names"
ERSPAN_CONFIG == "apic:erspan_config"
SNAT_HOST_POOL == "apic:snat_host_pool"
ACTIVE_ACTIVE_AAP == "apic:active_active_aap"
SNAT_SUBNET_ONLY == "apic:snat_subnet_only"
EPG_SUBNET == "apic:epg_subnet"
ADVERTISED_EXTERNALLY == "apic:advertised_externally"
SHARED_BETWEEN_VRFS == "apic:shared_between_vrfs"

NoExc == [name |-> "none"]
InvalidInput(why) == [name |-> "InvalidInput", why |-> why, retriable |-> FALSE]

\* d.update(u) on dicts held as functions from keys to values
DictUpdate(d, u) ==
    [k \in DOMAIN d \cup DOMAIN u |-> IF k \in DOMAIN u THEN u[k] ELSE d[k]]

\* d.get(key, default)
Get(d, key, default) == IF key \in DOMAIN d THEN d[key] ELSE default

NoKeys == [k \in {} |-> PyNone]

\* A distinguished name: the text "uni/<rn>-<name>/..." held as its parts; the
\* empty text has no parts and no "uni" root.
Dn(uni, parts) == [uni |-> uni, parts |-> parts]
EmptyDn == Dn(FALSE, <<>>)

\* aim.api.resource.VRF.from_dn(dn): the DN must be uni/tn-<tenant>/ctx-<name>;
\* any other text raises InvalidDNForAciResource.
VRF_from_dn(dn) ==
    IF /\ dn.uni
       /\ Len(dn.parts) = 2
       /\ dn.parts[1].rn = "tn"
       /\ dn.parts[2].rn = "ctx"
    THEN [ok |-> TRUE,
          vrf |-> [tenant_name |-> dn.parts[1].name, name |-> dn.parts[2].name]]
    ELSE [ok |-> FALSE]

\* DbMixin._get_address_scope_mappings_for_vrf(session, vrf)
_get_address_scope_mappings_for_vrf(table, vrf) ==
    {m \in table : m.vrf = vrf}

\* DbMixin._add_address_scope_mapping(session, scope_id, vrf, vrf_owned)
_add_address_scope_mapping(table, scope_id, vrf, vrf_owned) ==
    table \cup {[scope_id |-> scope_id, vrf |-> vrf, vrf_owned |-> vrf_owned]}

\* data[DIST_NAMES] is missing, None, or a dict that may hold a VRF DN;
\* dnOf is the DN the hook acts on, EmptyDn when the hook's guard is falsy.
DnGiven(data) ==
    /\ data.dist_names.kind = "dict"
    /\ data.dist_names.vrf # Absent
    /\ data.dist_names.vrf # EmptyDn

\* The outcomes of process_create_address_scope(plugin_context, data, result):
\* [raised, mappings, db].  The mappings of a VRF come back in the order the
\* query yields them, and vrf_owned is that of the last one.
ProcessCreateAddressScope_CheckAfterAdd(table, scopes, session, data, result) ==
    IF ~DnGiven(data)
    THEN {[raised |-> NoExc, mappings |-> table, db |-> {}]}
    ELSE LET dn == data.dist_names.vrf
             r == VRF_from_dn(dn)
         IN  IF ~r.ok
             THEN {[raised |-> InvalidInput("is not valid VRF DN"),
                    mappings |-> table, db |-> {}]}
             ELSE LET found == _get_address_scope_mappings_for_vrf(table, r.vrf)
                      reads == {[fn |-> "_get_address_scope_mappings_for_vrf",
                                 session |-> session]}
                      writes == {[fn |-> "_add_address_scope_mapping",
                                  session |-> session]}
                  IN  IF \E m \in found : scopes[m.scope_id] = data.ip_version
                      THEN {[raised |-> InvalidInput("VRF is already in use by address-scope"),
                             mappings |-> _add_address_scope_mapping(
                                              table, result.id, r.vrf, FALSE),
                             db |-> reads \cup writes]}
                      ELSE {[raised |-> NoExc,
                             mappings |-> _add_address_scope_mapping(
                                              table, result.id, r.vrf, owned),
                             db |-> reads \cup writes] :
                               owned \in IF found = {} THEN {FALSE}
                                         ELSE {m.vrf_owned : m \in found}}

ProcessCreateAddressScope_NoVersionCheck(table, scopes, session, data, result) ==
    IF ~DnGiven(data)
    THEN {[raised |-> NoExc, mappings |-> table, db |-> {}]}
    ELSE LET dn == data.dist_names.vrf
             r == VRF_from_dn(dn)
         IN  IF ~r.ok
             THEN {[raised |-> InvalidInput("is not valid VRF DN"),
                    mappings |-> table, db |-> {}]}
             ELSE LET found == _get_address_scope_mappings_for_vrf(table, r.vrf)
                  IN  {[raised |-> NoExc,
                        mappings |-> _add_address_scope_mapping(
                                         table, result.id, r.vrf, owned),
                        db |-> {[fn |-> "_get_address_scope_mappings_for_vrf",
                                 session |-> session],
                                [fn |-> "_add_address_scope_mapping",
                                 session |-> session]}] :
                          owned \in IF found = {} THEN {FALSE}
                                    ELSE {m.vrf_owned : m \in found}}

process_create_address_scope(table, scopes, session, data, result) ==
    IF ~DnGiven(data)
    THEN {[raised |-> NoExc, mappings |-> table, db |-> {}]}
    ELSE LET dn == data.dist_names.vrf
             r == VRF_from_dn(dn)
         IN  IF ~r.ok
             THEN {[raised |-> InvalidInput("is not valid VRF DN"),
                    mappings |-> table, db |-> {}]}
             ELSE LET found == _get_address_scope_mappings_for_vrf(table, r.vrf)
                      reads == {[fn |-> "_get_address_scope_mappings_for_vrf",
                                 session |-> session]}
                      writes == {[fn |-> "_add_address_scope_mapping",
                                  session |-> session]}
                  IN  IF \E m \in found : scopes[m.scope_id] = data.ip_version
                      THEN {[raised |-> InvalidInput("VRF is already in use by address-scope"),
                             mappings |-> table, db |-> reads]}
                      ELSE {[raised |-> NoExc,
                             mappings |-> _add_address_scope_mapping(
                                              table, result.id, r.vrf, owned),
                             db |-> reads \cup writes] :
                               owned \in IF found = {} THEN {FALSE}
                                         ELSE {m.vrf_owned : m \in found}}


\* ExtensionDbMixin.set_port_extn_db / set_subnet_extn_db(session, id, res_dict):
\* the row of that id takes the values of res_dict.
set_extn_db(store, id, res_dict) ==
    [i \in DOMAIN store \cup {id} |->
        IF i = id THEN DictUpdate(IF id \in DOMAIN store THEN store[id] ELSE NoKeys,
                                  res_dict)
        ELSE store[i]]

\* ExtensionDbMixin.get_subnet_extn_db(session, subnet_id)
get_subnet_extn_db(store, id) == IF id \in DOMAIN store THEN store[id] ELSE NoKeys

ProcessCreatePort_OwnSession(store, session, data, result) ==
    LET res_dict == [k \in {ERSPAN_CONFIG} |-> Get(data, ERSPAN_CONFIG, PyList(<<>>))]
    IN  [raised |-> NoExc,
         store |-> set_extn_db(store, result.id, res_dict),
         result |-> [result EXCEPT !.attrs = DictUpdate(@, res_dict)],
         db |-> {[fn |-> "set_port_extn_db",
                  session |-> [own |-> TRUE, id |-> "get_writer_session()"]]},
         writes |-> <<res_dict>>]

\* process_create_port(plugin_context, data, result): [raised, store, result, db]
process_create_port(store, session, data, result) ==
    LET res_dict == [k \in {ERSPAN_CONFIG} |-> Get(data, ERSPAN_CONFIG, PyList(<<>>))]
    IN  [raised |-> NoExc,
         store |-> set_extn_db(store, result.id, res_dict),
         result |-> [result EXCEPT !.attrs = DictUpdate(@, res_dict)],
         db |-> {[fn |-> "set_port_extn_db", session |-> session]},
         writes |-> <<res_dict>>]

\* process_update_port(plugin_context, data, result): [raised, store, result, db, writes]
ProcessUpdatePort_WritesDefault(store, session, data, result) ==
    LET res_dict == [k \in {ERSPAN_CONFIG} |-> Get(data, ERSPAN_CONFIG, PyList(<<>>))]
    IN  [raised |-> NoExc,
         store |-> set_extn_db(store, result.id, res_dict),
         result |-> [result EXCEPT !.attrs = DictUpdate(@, res_dict)],
         db |-> {[fn |-> "set_port_extn_db", session |-> session]},
         writes |-> <<res_dict>>]

process_update_port(store, session, data, result) ==
    IF ERSPAN_CONFIG \notin DOMAIN data
    THEN [raised |-> NoExc, store |-> store, result |-> result, db |-> {},
          writes |-> <<>>]
    ELSE LET res_dict == [k \in {ERSPAN_CONFIG} |-> data[ERSPAN_CONFIG]]
         IN  [raised |-> NoExc,
              store |-> set_extn_db(store, result.id, res_dict),
              result |-> [result EXCEPT !.attrs = DictUpdate(@, res_dict)],
              db |-> {[fn |-> "set_port_extn_db", session |-> session]},
              writes |-> <<res_dict>>]

\* gbpservice.neutron.db.api.is_retriable(e)
is_retriable(e) == e.retriable

\* The _md property: the plugin registry is consulted only while
\* _mechanism_driver is unset; a registry without the apic_aim driver raises.
\* [ok, md, lookups, e]
MdProperty(mechanism_driver, registry_ok) ==
    IF mechanism_driver # "None"
    THEN [ok |-> TRUE, md |-> mechanism_driver, lookups |-> 0]
    ELSE IF registry_ok
         THEN [ok |-> TRUE, md |-> "apic_aim", lookups |-> 1]
         ELSE [ok |-> FALSE, md |-> "None", lookups |-> 1,
               e |-> [name |-> "KeyError", retriable |-> FALSE]]

\* with excutils.save_and_reraise_exception(): log, then re-raise e
SaveAndReraise_SwallowRetriable(e) ==
    [raised |-> IF is_retriable(e) THEN NoExc ELSE e,
     log |-> IF is_retriable(e) THEN "debug" ELSE "exception"]

SaveAndReraise(e) ==
    [raised |-> e, log |-> IF is_retriable(e) THEN "debug" ELSE "exception"]

SubnetKeys ==
    {SNAT_HOST_POOL, ACTIVE_ACTIVE_AAP, SNAT_SUBNET_ONLY, EPG_SUBNET,
     ADVERTISED_EXTERNALLY, SHARED_BETWEEN_VRFS}

SubnetDefault(k) == PyBool(k = ADVERTISED_EXTERNALLY)

\* The six assignments result[<key>] = res_dict.get(<key>, <default>)
SubnetFill(result, res_dict) ==
    [result EXCEPT !.attrs =
        DictUpdate(@, [k \in SubnetKeys |-> Get(res_dict, k, SubnetDefault(k))])]

\* extend_<resource>_dict(session, base_model, result) and
\* extend_<resource>_dict_bulk(session, results).  md_outcome and db_outcome
\* are what the mechanism driver's call and (subnets only) the extension-table
\* read do: NoExc or the exception they raise.  results are the result dicts
\* handed in (one for the non-bulk hooks).
\* [raised, log, mdCalls, lookups, md, results, db]
ExtendDictHook(resource, mechanism_driver, registry_ok, store, session, results, md_outcome, db_outcome) ==
    LET p == MdProperty(mechanism_driver, registry_ok)
        base == [md |-> p.md, lookups |-> p.lookups, results |-> results,
                 mdRaised |-> NoExc]
    IN  IF ~p.ok
        THEN base @@ SaveAndReraise(p.e) @@ [mdCalls |-> 0, db |-> {}]
        ELSE IF md_outcome # NoExc
        THEN [base EXCEPT !.mdRaised = md_outcome]
               @@ SaveAndReraise(md_outcome) @@ [mdCalls |-> 1, db |-> {}]
        ELSE IF resource # "subnet" \/ results = <<>>
        THEN base @@ [raised |-> NoExc, log |-> "none", mdCalls |-> 1, db |-> {}]
        ELSE IF db_outcome # NoExc
        THEN base @@ SaveAndReraise(db_outcome)
               @@ [mdCalls |-> 1,
                   db |-> {[fn |-> "get_subnet_extn_db", session |-> session]}]
        ELSE [base EXCEPT !.results =
                 [n \in 1..Len(results) |->
                     SubnetFill(results[n], get_subnet_extn_db(store, results[n].id))]]
               @@ [raised |-> NoExc, log |-> "none", mdCalls |-> 1,
                   db |-> {[fn |-> "get_subnet_extn_db", session |-> session]}]


(***************************************************************************)
(* alembic_migrations/versions/68fcb81878c5_alter_ha_ip_address_table.py   *)
(***************************************************************************)
HaIpTable == "apic_ml2_ha_ipaddress_to_port_owner"

\* What upgrade() reaches the database through: the Alembic operations context
\* and its connection, both given by the caller, or a session it makes itself.
AlembicContext == [own |-> FALSE, id |-> "op"]
OwnSession == [own |-> TRUE, id |-> "Session(bind=op.get_bind())", autocommit |-> TRUE]

\* op.drop_constraint(pk_constraint['name'], table_name=..., type_='primary')
MigDropConstraint(m) ==
    [m EXCEPT !.pk = <<>>, !.pk_name = "",
              !.ops = Append(@, "drop_constraint"),
              !.db = @ \cup {[fn |-> "get_pk_constraint", session |-> AlembicContext],
                             [fn |-> "drop_constraint", session |-> AlembicContext]},
              !.pc = "dropped"]

\* op.add_column(table, sa.Column('vrf', sa.String(length=64), nullable=False)):
\* the rows already there get the empty text.
MigAddColumn(m) ==
    [m EXCEPT !.vrf_column = [type |-> "String", length |-> 64, nullable |-> FALSE],
              !.rows = [ip \in DOMAIN m.rows |-> ""],
              !.ops = Append(@, "add_column"),
              !.db = @ \cup {[fn |-> "add_column", session |-> AlembicContext]},
              !.pc = "added"]

MigCreatePrimaryKey_SingleColumn(m) ==
    [m EXCEPT !.pk = <<"ha_ip_address">>,
              !.pk_name = "apic_ml2_ha_ipaddress_to_port_owner_pk",
              !.ops = Append(@, "create_primary_key"),
              !.db = @ \cup {[fn |-> "create_primary_key", session |-> AlembicContext]},
              !.pc = "keyed"]

\* op.create_primary_key(constraint_name=..., columns=['ha_ip_address', 'vrf'])
MigCreatePrimaryKey(m) ==
    [m EXCEPT !.pk = <<"ha_ip_address", "vrf">>,
              !.pk_name = "apic_ml2_ha_ipaddress_to_port_owner_pk",
              !.ops = Append(@, "create_primary_key"),
              !.db = @ \cup {[fn |-> "create_primary_key", session |-> AlembicContext]},
              !.pc = "keyed"]

\* data_migrations.do_ha_ip_vrf_name_insertion(session): in one transaction it
\* gives every row its VRF name, or raises and leaves the rows as they were.
do_ha_ip_vrf_name_insertion(rows, vrf_of, outcome) ==
    IF outcome = "ok" THEN [ip \in DOMAIN rows |-> vrf_of[ip]] ELSE rows

\* The try block of upgrade(): import data_migrations, open a session, backfill.
\* outcome is what the block does: "ok", "ImportError" on the import, or
\* "Exception" raised by the session or the backfill.
MigBackfill_Propagate(m, vrf_of, outcome) ==
    LET tried == [m EXCEPT !.ops = Append(@, "backfill"),
                           !.db = @ \cup {[fn |-> "get_table_names",
                                           session |-> AlembicContext]},
                           !.backfill = outcome]
    IN  IF outcome = "ImportError"
        THEN [tried EXCEPT !.warnings = Append(@, "failed to import AIM libraries"),
                           !.pc = "done"]
        ELSE IF outcome = "Exception"
        THEN [tried EXCEPT !.raised = "Exception", !.pc = "failed",
                           !.sessions = @ \cup {OwnSession}]
        ELSE [tried EXCEPT !.rows = do_ha_ip_vrf_name_insertion(m.rows, vrf_of, outcome),
                           !.sessions = @ \cup {OwnSession},
                           !.db = @ \cup {[fn |-> "get_table_names",
                                           session |-> AlembicContext],
                                          [fn |-> "do_ha_ip_vrf_name_insertion",
                                           session |-> OwnSession]},
                           !.pc = "done"]

MigBackfill(m, vrf_of, outcome) ==
    LET tried == [m EXCEPT !.ops = Append(@, "backfill"),
                           !.db = @ \cup {[fn |-> "get_table_names",
                                           session |-> AlembicContext]},
                           !.backfill = outcome]
    IN  IF outcome = "ImportError"
        THEN [tried EXCEPT !.warnings = Append(@, "failed to import AIM libraries"),
                           !.pc = "done"]
        ELSE [tried EXCEPT !.rows = do_ha_ip_vrf_name_insertion(m.rows, vrf_of, outcome),
                           !.warnings = IF outcome = "Exception"
                                        THEN Append(@, "Caught exception inserting HA IP vrf name")
                                        ELSE @,
                           !.sessions = @ \cup {OwnSession},
                           !.db = @ \cup {[fn |-> "get_table_names",
                                           session |-> AlembicContext],
                                          [fn |-> "do_ha_ip_vrf_name_insertion",
                                           session |-> OwnSession]},
                           !.pc = "done"]

\* downgrade(): pass
downgrade(m) == m


(***************************************************************************)
(* apic_aim/nova_client.py                                                 *)
(***************************************************************************)
\* if <value>: Python's truth of the values met here
Truthy(v) ==
    CASE v.t = "bool" -> v.b
      [] v.t = "int" -> v.i # 0
      [] v.t = "none" -> FALSE
      [] OTHER -> TRUE

\* str(<datetime>) of the time t seconds after the epoch: the text
\* "<date> <hh>:<mm>:<ss>", held as its four fields.
DatetimeStr(t) ==
    [t |-> "str",
     date |-> t \div 86400,
     hh |-> (t % 86400) \div 3600,
     mm |-> (t % 3600) \div 60,
     ss |-> t % 60]

\* _get_client(): [raised, client, notifiers] after the call.  client is 0 for
\* None, else the number of the Notifier() call whose nclient it is; notifiers
\* counts the Notifier() calls made; notifier_ok tells whether Notifier()
\* returns or raises.
GetClient_AlwaysNew(client, notifiers, notifier_ok) ==
    IF notifier_ok
    THEN [raised |-> FALSE, client |-> notifiers + 1, notifiers |-> notifiers + 1]
    ELSE [raised |-> TRUE, client |-> client, notifiers |-> notifiers + 1]

_get_client(client, notifiers, notifier_ok) ==
    IF client = 0
    THEN IF notifier_ok
         THEN [raised |-> FALSE, client |-> notifiers + 1, notifiers |-> notifiers + 1]
         ELSE [raised |-> TRUE, client |-> 0, notifiers |-> notifiers + 1]
    ELSE [raised |-> FALSE, client |-> client, notifiers |-> notifiers]

\* NovaClient.get_servers(is_full_update, changes_since_in_sec) at time now;
\* list_ok tells whether the compute API's list call returns or raises.
\* [list_calls, returned]
GetServers_AddsSeconds(is_full_update, changes_since_in_sec, now, list_ok) ==
    LET seconds_ago == now + changes_since_in_sec
        search_opts ==
            IF Truthy(is_full_update)
            THEN [k \in {"all_tenants"} |-> PyInt(1)]
            ELSE [k \in {"all_tenants", "changes-since", "deleted"} |->
                    CASE k = "all_tenants" -> PyInt(1)
                      [] k = "changes-since" -> DatetimeStr(seconds_ago)
                      [] k = "deleted" -> PyStr(<<"f", "a", "l", "s", "e">>)]
    IN  [list_calls |-> <<[detailed |-> FALSE, search_opts |-> search_opts, limit |-> -1]>>,
         returned |-> IF list_ok THEN "servers" ELSE "None"]

get_servers(is_full_update, changes_since_in_sec, now, list_ok) ==
    LET seconds_ago == now - changes_since_in_sec
        search_opts ==
            IF Truthy(is_full_update)
            THEN [k \in {"all_tenants"} |-> PyInt(1)]
            ELSE [k \in {"all_tenants", "changes-since", "deleted"} |->
                    CASE k = "all_tenants" -> PyInt(1)
                      [] k = "changes-since" -> DatetimeStr(seconds_ago)
                      [] k = "deleted" -> PyStr(<<"f", "a", "l", "s", "e">>)]
    IN  [list_calls |-> <<[detailed |-> FALSE, search_opts |-> search_opts, limit |-> -1]>>,
         returned |-> IF list_ok THEN "servers" ELSE "None"]


(***************************************************************************)
(* apic_aim/extension_driver.py: the network and subnet hooks              *)
(***************************************************************************)
NAT_TYPE == "apic:nat_type"
EXTERNAL_CIDRS == "apic:external_cidrs"
SVI == "apic:svi"
BGP == "apic:bgp_enable"
BGP_ASN == "apic:bgp_asn"
BGP_TYPE == "apic:bgp_type"
NESTED_DOMAIN_NAME == "apic:nested_domain_name"
NESTED_DOMAIN_TYPE == "apic:nested_domain_type"
NESTED_DOMAIN_INFRA_VLAN == "apic:nested_domain_infra_vlan"
NESTED_DOMAIN_ALLOWED_VLANS == "apic:nested_domain_allowed_vlans"
NESTED_DOMAIN_SERVICE_VLAN == "apic:nested_domain_service_vlan"
NESTED_DOMAIN_NODE_NETWORK_VLAN == "apic:nested_domain_node_network_vlan"
EXTRA_PROVIDED_CONTRACTS == "apic:extra_provided_contracts"
EXTRA_CONSUMED_CONTRACTS == "apic:extra_consumed_contracts"
EPG_CONTRACT_MASTERS == "apic:epg_contract_masters"
POLICY_ENFORCEMENT_PREF == "apic:policy_enforcement_pref"
NO_NAT_CIDRS == "apic:no_nat_cidrs"
MULTI_EXT_NETS == "apic:multi_ext_nets"
BD == "BridgeDomain"
EXTERNAL_NETWORK == "ExternalNetwork"

\* A text value of an attribute, held whole.
PyText(s) == [t |-> "str", text |-> s]

\* if <value>: Python's truth of an attribute value or of a DN text
PyTruth(v) ==
    IF v = EmptyDn THEN FALSE
    ELSE IF "uni" \in DOMAIN v THEN TRUE
    ELSE CASE v.t = "dict" -> DOMAIN v.d # {}
           [] v.t = "list" -> v.l # <<>>
           [] v.t = "str" -> v # PyText("")
           [] OTHER -> Truthy(v)

\* aim.api.resource.ExternalNetwork.from_dn(dn): the DN must be
\* uni/tn-<tenant>/out-<l3out>/instP-<name>
ExternalNetwork_from_dn(dn) ==
    /\ dn.uni
    /\ Len(dn.parts) = 3
    /\ dn.parts[1].rn = "tn"
    /\ dn.parts[2].rn = "out"
    /\ dn.parts[3].rn = "instP"

\* aim.api.resource.BridgeDomain.from_dn(dn): the DN must be uni/tn-<tenant>/BD-<name>
BridgeDomain_from_dn(dn) ==
    /\ dn.uni
    /\ Len(dn.parts) = 2
    /\ dn.parts[1].rn = "tn"
    /\ dn.parts[2].rn = "BD"

\* 'allow_put' of the attributes of the extension schema
allow_put ==
    [k \in {DIST_NAMES, ERSPAN_CONFIG, SVI, BGP, BGP_TYPE, BGP_ASN, NESTED_DOMAIN_NAME,
            NESTED_DOMAIN_TYPE, NESTED_DOMAIN_INFRA_VLAN, NESTED_DOMAIN_SERVICE_VLAN,
            NESTED_DOMAIN_NODE_NETWORK_VLAN, NESTED_DOMAIN_ALLOWED_VLANS,
            EXTRA_PROVIDED_CONTRACTS, EXTRA_CONSUMED_CONTRACTS, EPG_CONTRACT_MASTERS,
            POLICY_ENFORCEMENT_PREF, NO_NAT_CIDRS, MULTI_EXT_NETS, NAT_TYPE,
            EXTERNAL_CIDRS, SNAT_HOST_POOL, ACTIVE_ACTIVE_AAP, SNAT_SUBNET_ONLY,
            EPG_SUBNET, ADVERTISED_EXTERNALLY, SHARED_BETWEEN_VRFS} |->
        k \notin {DIST_NAMES, SVI, MULTI_EXT_NETS, NAT_TYPE, ACTIVE_ACTIVE_AAP, EPG_SUBNET}]

\* validate_bgp_params(data, result=None): the exception raised, or NoExc.
\* result is PyNone on create and the network's dict on update.
ValidateBgpParams_SviFromData(data, result) ==
    LET is_svi == Get(data, SVI, PyBool(FALSE))
        is_bgp_enabled == Get(data, BGP, PyBool(FALSE))
        bgp_type == Get(data, BGP_TYPE, PyText("default_export"))
        asn == Get(data, BGP_ASN, PyText("0"))
    IN  IF /\ ~PyTruth(is_svi)
           /\ \/ PyTruth(is_bgp_enabled)
              \/ bgp_type # PyText("default_export")
              \/ asn # PyText("0")
        THEN InvalidInput("Network has to be created as svi type")
        ELSE NoExc

validate_bgp_params(data, result) ==
    LET is_svi == IF result # PyNone
                  THEN Get(result.attrs, SVI, PyNone)
                  ELSE Get(data, SVI, PyBool(FALSE))
        is_bgp_enabled == Get(data, BGP, PyBool(FALSE))
        bgp_type == Get(data, BGP_TYPE, PyText("default_export"))
        asn == Get(data, BGP_ASN, PyText("0"))
    IN  IF /\ ~PyTruth(is_svi)
           /\ \/ PyTruth(is_bgp_enabled)
              \/ bgp_type # PyText("default_export")
              \/ asn # PyText("0")
        THEN InvalidInput("Network has to be created as svi type")
        ELSE NoExc

\* cisco_apic.VLANS_LIST in (data.get(NESTED_DOMAIN_ALLOWED_VLANS) or {})
HasVlansList(data) ==
    LET v == Get(data, NESTED_DOMAIN_ALLOWED_VLANS, PyNone)
    IN  PyTruth(v) /\ v.t = "dict" /\ VLANS_LIST \in DOMAIN v.d

\* data.get(DIST_NAMES) and data[DIST_NAMES].get(key): the DN, or PyNone when
\* the guard is falsy
DnOf(data, key) ==
    LET dist == Get(data, DIST_NAMES, PyNone)
    IN  IF PyTruth(dist) /\ PyTruth(Get(dist.d, key, PyNone))
        THEN dist.d[key]
        ELSE PyNone

\* result.setdefault(DIST_NAMES, {})[key] = res_dict.pop(key); result.update(res_dict)
NestDn_NoPop(result, key, res_dict) ==
    LET dist == Get(result.attrs, DIST_NAMES, PyDict(NoKeys))
        nested == PyDict(DictUpdate(dist.d, [k \in {key} |-> res_dict[key]]))
    IN  [result EXCEPT !.attrs =
            DictUpdate(DictUpdate(@, [k \in {DIST_NAMES} |-> nested]), res_dict)]

NestDn(result, key, res_dict) ==
    LET dist == Get(result.attrs, DIST_NAMES, PyDict(NoKeys))
        nested == PyDict(DictUpdate(dist.d, [k \in {key} |-> res_dict[key]]))
        popped == [k \in DOMAIN res_dict \ {key} |-> res_dict[k]]
    IN  [result EXCEPT !.attrs =
            DictUpdate(DictUpdate(@, [k \in {DIST_NAMES} |-> nested]), popped)]

\* One set_network_extn_db(session, id, res_dict) followed by the update of result:
\* the hook's progress o = [raised, store, result, db, writes] after it.
NetWrite(o, session, id, res_dict, result) ==
    [o EXCEPT !.store = set_extn_db(@, id, res_dict),
              !.result = result,
              !.db = @ \cup {[fn |-> "set_network_extn_db", session |-> session]},
              !.writes = Append(@, res_dict)]

\* The keys of the first res_dict of process_create_network
NetCreateKeys ==
    {SVI, BGP, BGP_TYPE, BGP_ASN, NESTED_DOMAIN_NAME, NESTED_DOMAIN_TYPE,
     NESTED_DOMAIN_INFRA_VLAN, NESTED_DOMAIN_SERVICE_VLAN,
     NESTED_DOMAIN_NODE_NETWORK_VLAN, EXTRA_PROVIDED_CONTRACTS,
     EXTRA_CONSUMED_CONTRACTS, EPG_CONTRACT_MASTERS, POLICY_ENFORCEMENT_PREF,
     NO_NAT_CIDRS, MULTI_EXT_NETS}

\* data.get(<key>, <default>) as process_create_network writes it for each key
NetCreateDefault(k) ==
    CASE k \in {SVI, BGP, MULTI_EXT_NETS} -> PyBool(FALSE)
      [] k = BGP_TYPE -> PyText("default_export")
      [] k = BGP_ASN -> PyText("0")
      [] k = POLICY_ENFORCEMENT_PREF -> PyText("unenforced")
      [] OTHER -> PyNone

\* The part of process_create_network for the DN given under key (lines 177-199
\* for ExternalNetwork, 200-214 for BridgeDomain), entered with progress o.
CreateNetworkDn(o, session, data, id, key, valid, res_dict) ==
    IF o.raised # NoExc \/ DnOf(data, key) = PyNone THEN o
    ELSE IF ~valid
    THEN [o EXCEPT !.raised = InvalidInput("is not valid DN")]
    ELSE NetWrite(o, session, id, res_dict, NestDn(o.result, key, res_dict))

\* process_create_network(plugin_context, data, result):
\* [raised, store, result, db, writes]
process_create_network(store, session, data, result) ==
    LET is_svi == Get(data, SVI, PyBool(FALSE))
        start == [raised |-> NoExc, store |-> store, result |-> result, db |-> {},
                  writes |-> <<>>]
        bgp == validate_bgp_params(data, PyNone)
        res_dict0 == [k \in NetCreateKeys |-> Get(data, k, NetCreateDefault(k))]
        res_dict == IF HasVlansList(data)
                    THEN DictUpdate(res_dict0,
                            [k \in {NESTED_DOMAIN_ALLOWED_VLANS} |->
                                data[NESTED_DOMAIN_ALLOWED_VLANS].d[VLANS_LIST]])
                    ELSE res_dict0
        ext_dn == DnOf(data, EXTERNAL_NETWORK)
        ext_dict ==
            IF PyTruth(is_svi)
            THEN [k \in {EXTERNAL_NETWORK} |-> ext_dn]
            ELSE [k \in {EXTERNAL_NETWORK, NAT_TYPE, EXTERNAL_CIDRS} |->
                    CASE k = EXTERNAL_NETWORK -> ext_dn
                      [] k = NAT_TYPE -> Get(data, NAT_TYPE, PyText("distributed"))
                      [] k = EXTERNAL_CIDRS ->
                            Get(data, EXTERNAL_CIDRS, PyList(<<"0.0.0.0/0">>))]
        bd_dn == DnOf(data, BD)
        bd_dict == [k \in {BD} |-> bd_dn]
    IN  IF bgp # NoExc THEN [start EXCEPT !.raised = bgp]
        ELSE LET o1 == NetWrite(start, session, result.id, res_dict,
                                [result EXCEPT !.attrs = DictUpdate(@, res_dict)])
                 o2 == CreateNetworkDn(o1, session, data, result.id, EXTERNAL_NETWORK,
                                       ext_dn # PyNone /\ ExternalNetwork_from_dn(ext_dn),
                                       ext_dict)
             IN  CreateNetworkDn(o2, session, data, result.id, BD,
                                 bd_dn # PyNone /\ BridgeDomain_from_dn(bd_dn), bd_dict)

\* update_attrs and ext_keys of process_update_network
update_attrs ==
    {EXTERNAL_CIDRS, BGP, BGP_TYPE, BGP_ASN, NESTED_DOMAIN_NAME, NESTED_DOMAIN_TYPE,
     NESTED_DOMAIN_INFRA_VLAN, NESTED_DOMAIN_SERVICE_VLAN,
     NESTED_DOMAIN_NODE_NETWORK_VLAN, NESTED_DOMAIN_ALLOWED_VLANS,
     EXTRA_PROVIDED_CONTRACTS, EXTRA_CONSUMED_CONTRACTS, EPG_CONTRACT_MASTERS,
     POLICY_ENFORCEMENT_PREF, NO_NAT_CIDRS, MULTI_EXT_NETS}

ext_keys ==
    {BGP, BGP_TYPE, BGP_ASN, NESTED_DOMAIN_NAME, NESTED_DOMAIN_TYPE,
     NESTED_DOMAIN_INFRA_VLAN, NESTED_DOMAIN_SERVICE_VLAN,
     NESTED_DOMAIN_NODE_NETWORK_VLAN, EXTRA_PROVIDED_CONTRACTS,
     EXTRA_CONSUMED_CONTRACTS, EPG_CONTRACT_MASTERS, POLICY_ENFORCEMENT_PREF,
     NO_NAT_CIDRS, MULTI_EXT_NETS}

\* process_update_network(plugin_context, data, result):
\* [raised, store, result, db, writes]
process_update_network(store, session, data, result) ==
    LET start == [raised |-> NoExc, store |-> store, result |-> result, db |-> {},
                  writes |-> <<>>]
        has_ext == PyTruth(Get(Get(result.attrs, DIST_NAMES, PyDict(NoKeys)).d,
                               EXTERNAL_NETWORK, PyNone))
        cidrs == IF has_ext /\ EXTERNAL_CIDRS \in DOMAIN data
                 THEN [k \in {EXTERNAL_CIDRS} |-> data[EXTERNAL_CIDRS]]
                 ELSE NoKeys
        bgp == validate_bgp_params(data, result)
        given == DictUpdate(cidrs, [k \in ext_keys \cap DOMAIN data |-> data[k]])
        res_dict == IF HasVlansList(data)
                    THEN DictUpdate(given,
                            [k \in {NESTED_DOMAIN_ALLOWED_VLANS} |->
                                data[NESTED_DOMAIN_ALLOWED_VLANS].d[VLANS_LIST]])
                    ELSE given
    IN  IF update_attrs \cap DOMAIN data = {} THEN start
        ELSE IF bgp # NoExc THEN [start EXCEPT !.raised = bgp]
        ELSE IF DOMAIN res_dict = {} THEN start
        ELSE NetWrite(start, session, result.id, res_dict,
                      [result EXCEPT !.attrs = DictUpdate(@, res_dict)])

\* process_create_subnet(plugin_context, data, result): [raised, store, result, db, writes]
process_create_subnet(store, session, data, result) ==
    LET res_dict == [k \in SubnetKeys |-> Get(data, k, SubnetDefault(k))]
    IN  [raised |-> NoExc,
         store |-> set_extn_db(store, result.id, res_dict),
         result |-> [result EXCEPT !.attrs = DictUpdate(@, res_dict)],
         db |-> {[fn |-> "set_subnet_extn_db", session |-> session]},
         writes |-> <<res_dict>>]

\* The keys process_update_subnet looks for in data
SubnetUpdateKeys ==
    {SNAT_HOST_POOL, SNAT_SUBNET_ONLY, ADVERTISED_EXTERNALLY, SHARED_BETWEEN_VRFS}

\* process_update_subnet(plugin_context, data, result): [raised, store, result, db, writes]
ProcessUpdateSubnet_ResetsOthers(store, session, data, result) ==
    IF SubnetUpdateKeys \cap DOMAIN data = {}
    THEN [raised |-> NoExc, store |-> store, result |-> result, db |-> {},
          writes |-> <<>>]
    ELSE LET res_dict == [k \in SubnetKeys |-> Get(data, k, SubnetDefault(k))]
         IN  [raised |-> NoExc,
              store |-> set_extn_db(store, result.id, res_dict),
              result |-> [result EXCEPT !.attrs = DictUpdate(@, res_dict)],
              db |-> {[fn |-> "set_subnet_extn_db", session |-> session]},
              writes |-> <<res_dict>>]

process_update_subnet(store, session, data, result) ==
    IF SubnetUpdateKeys \cap DOMAIN data = {}
    THEN [raised |-> NoExc, store |-> store, result |-> result, db |-> {},
          writes |-> <<>>]
    ELSE LET res_dict == [k \in SubnetUpdateKeys \cap DOMAIN data |-> data[k]]
         IN  [raised |-> NoExc,
              store |-> set_extn_db(store, result.id, res_dict),
              result |-> [result EXCEPT !.attrs = DictUpdate(@, res_dict)],
              db |-> {[fn |-> "set_subnet_extn_db", session |-> session]},
              writes |-> <<res_dict>>]

(***************************************************************************)
(* Bounds and inputs of the hooks, the migration and the Nova client.      *)
(***************************************************************************)
MaxScopes == 2
MaxResults == 1
MaxHaIps == 3
MaxClients == 2
MaxSince == 2

Sessions == {[own |-> FALSE, id |-> "s1"], [own |-> FALSE, id |-> "s2"]}

Vrf1Dn == Dn(TRUE, <<[rn |-> "tn", name |-> "t1"], [rn |-> "ctx", name |-> "v1"]>>)
Vrf2Dn == Dn(TRUE, <<[rn |-> "tn", name |-> "t1"], [rn |-> "ctx", name |-> "v2"]>>)
BdDn == Dn(TRUE, <<[rn |-> "tn", name |-> "t1"], [rn |-> "BD", name |-> "b1"]>>)
TextDn == Dn(FALSE, <<[rn |-> "foo", name |-> ""]>>)

DistNamesInputs ==
    {[kind |-> "missing"], [kind |-> "none"], [kind |-> "dict", vrf |-> Absent]}
      \cup {[kind |-> "dict", vrf |-> d] : d \in {EmptyDn, Vrf1Dn, Vrf2Dn, BdDn, TextDn}}

NoScopes == [i \in {} |-> 4]
NoRows == [i \in {} |-> NoKeys]

\* The tables before the first call: empty, or one address scope (id 0) that
\* already maps VRF t1/v1.
InitScopeTables ==
    {[scopes |-> NoScopes, mappings |-> {}]}
      \cup {[scopes |-> [i \in {0} |-> v],
             mappings |-> {[scope_id |-> 0,
                            vrf |-> [tenant_name |-> "t1", name |-> "v1"],
                            vrf_owned |-> o]}] : v \in {4, 6}, o \in BOOLEAN}

ErspanValues ==
    {PyList(<<>>),
     PyList(<<MkDict(ERSPAN_DEST_IP, PyStr(<<"1", ".", "1", ".", "1", ".", "1">>),
                     ERSPAN_FLOW_ID, PyInt(1), "u3", Absent, "u4", Absent)>>)}

PortData ==
    {NoKeys, [k \in {"name"} |-> PyStr(<<"n">>)]}
      \cup {[k \in {ERSPAN_CONFIG} |-> v] : v \in ErspanValues}
      \cup {[k \in {ERSPAN_CONFIG, "name"} |->
               IF k = "name" THEN PyStr(<<"n">>) ELSE v] : v \in ErspanValues}

InitPortStores ==
    {NoRows} \cup {[i \in {"p1"} |-> [k \in {ERSPAN_CONFIG} |-> v]] : v \in ErspanValues}

InitSubnetStores ==
    {NoRows,
     [i \in {"s1"} |-> [k \in SubnetKeys |-> SubnetDefault(k)]],
     [i \in {"s1"} |-> [k \in SubnetKeys |-> PyBool(k # ADVERTISED_EXTERNALLY)]],
     [i \in {"s1"} |-> [k \in {SNAT_HOST_POOL} |-> PyBool(TRUE)]]}

MdExceptions ==
    {[name |-> "DBDeadlock", retriable |-> TRUE],
     [name |-> "RuntimeError", retriable |-> FALSE]}

DbExceptions == {[name |-> "DBConnectionError", retriable |-> TRUE]}

ResultDicts == {[id |-> i, attrs |-> NoKeys] : i \in {"s1", "s2"}}

HaIps == 1..MaxHaIps
VrfNames == {"v1", "v2", "v3"}

MigInit(ips) ==
    [pc |-> "start", pk |-> <<"ha_ip_address">>, pk_name |-> "PRIMARY",
     vrf_column |-> Absent, rows |-> [ip \in ips |-> "-"], ops |-> <<>>,
     db |-> {}, sessions |-> {}, warnings |-> <<>>,
     backfill |-> "not attempted", raised |-> "none"]

NovaInit == [client |-> 0, notifiers |-> 0, instances |-> <<>>, last |-> [op |-> "none"]]

NowTimes == {0, 59, 61, 3600, 86399, 86400, 90061}
SinceValues == 0..MaxSince \cup {60, 3600, 86400}
FullUpdateValues == {PyBool(TRUE), PyBool(FALSE), PyInt(0), PyInt(1), PyNone}

\* The session of the plugin context in the network and subnet requests
OneSession == {[own |-> FALSE, id |-> "s1"]}

\* Dicts of request data: one optional key, and the merge of two sets of dicts
Opt(key, values) == {NoKeys} \cup {[k \in {key} |-> v] : v \in values}
Merge(A, B) == {DictUpdate(a, b) : a \in A, b \in B}

ExtNetDn ==
    Dn(TRUE, <<[rn |-> "tn", name |-> "t1"], [rn |-> "out", name |-> "l1"],
               [rn |-> "instP", name |-> "n1"]>>)

\* data[DIST_NAMES] of a network create
NetDistNames ==
    {PyNone}
      \cup {PyDict([k \in {EXTERNAL_NETWORK} |-> d]) : d \in {ExtNetDn, TextDn}}
      \cup {PyDict([k \in {BD} |-> d]) : d \in {BdDn, TextDn}}
      \cup {PyDict([k \in {EXTERNAL_NETWORK, BD} |->
                      IF k = EXTERNAL_NETWORK THEN ExtNetDn ELSE d]) : d \in {BdDn, Vrf1Dn}}

BgpData ==
    {[k \in {BGP} |-> PyBool(TRUE)], [k \in {BGP} |-> PyBool(FALSE)],
     [k \in {BGP_TYPE} |-> PyText("")], [k \in {BGP_ASN} |-> PyText("65000")]}

AllowedVlansData ==
    {PyNone, PyDict([k \in {VLANS_LIST} |-> PyList(<<PyInt(1)>>)])}

NetExternalData ==
    [k \in {NAT_TYPE, EXTERNAL_CIDRS} |->
        IF k = NAT_TYPE THEN PyText("edge") ELSE PyList(<<"10.0.0.0/8">>)]

NetOtherData ==
    [k \in {NESTED_DOMAIN_NAME, NESTED_DOMAIN_ALLOWED_VLANS, MULTI_EXT_NETS} |->
        CASE k = NESTED_DOMAIN_NAME -> PyText("d")
          [] k = NESTED_DOMAIN_ALLOWED_VLANS ->
                PyDict([j \in {VLANS_LIST} |-> PyList(<<PyInt(1)>>)])
          [] k = MULTI_EXT_NETS -> PyBool(TRUE)]

\* data of process_create_network
NetCreateData ==
    Merge(Merge(Merge(Opt(SVI, {PyBool(TRUE), PyBool(FALSE)}),
                      {NoKeys} \cup BgpData),
                Opt(DIST_NAMES, NetDistNames)),
          {NoKeys, NetExternalData})
      \cup {NetOtherData, DictUpdate(NetOtherData, [k \in {SVI} |-> PyBool(TRUE)])}

\* data of process_update_network: updatable keys one at a time and together,
\* keys the schema does not let a PUT carry, and neither
NetUpdateData ==
    {NoKeys, [k \in {"name"} |-> PyText("n")]}
      \cup Opt(SVI, {PyBool(TRUE)})
      \cup Opt(NAT_TYPE, {PyText("edge")})
      \cup Opt(DIST_NAMES, {PyDict([k \in {EXTERNAL_NETWORK} |-> ExtNetDn])})
      \cup BgpData
      \cup Merge({[k \in {SVI} |-> PyBool(TRUE)]}, BgpData)
      \cup Opt(NESTED_DOMAIN_NAME, {PyText("d")})
      \cup Opt(NESTED_DOMAIN_ALLOWED_VLANS, AllowedVlansData)
      \cup Opt(EXTERNAL_CIDRS, {PyList(<<"10.0.0.0/8">>)})
      \cup Opt(MULTI_EXT_NETS, {PyBool(TRUE)})
      \cup {DictUpdate(NetOtherData, NetExternalData)}

\* data of process_create_subnet and process_update_subnet: some of the six
\* keys, all given as True or all given as False
SubnetKeySets ==
    {{}, SubnetKeys, SubnetUpdateKeys, SubnetKeys \ SubnetUpdateKeys}
      \cup {{k} : k \in SubnetKeys}

SubnetData ==
    {[k \in K |-> PyBool(b)] : K \in SubnetKeySets, b \in BOOLEAN}
      \cup {[k \in {"name"} |-> PyText("n")]}

NoCall == [op |-> "none"]

ValidIdle == vFn = "" /\ vIn = PyNone /\ vOut = NotCalled
DriverIdle ==
    /\ address_scopes = NoScopes /\ mappings = {}
    /\ port_extn = NoRows /\ subnet_extn = NoRows /\ network_extn = NoRows
    /\ _mechanism_driver = "None" /\ call = NoCall
MigIdle == mig = MigInit({})
NovaIdle == nova = NovaInit

(***************************************************************************)
(* The hooks, as the plugin calls them.                                    *)
(***************************************************************************)
\* The plugin has inserted the new scope's row (id, ip_version) in its
\* transaction before the hook runs, and rolls that row back when the hook raises.
CreateAddressScope ==
    \E session \in Sessions, ipv \in {4, 6}, dist \in DistNamesInputs :
        LET id == Cardinality(DOMAIN address_scopes \ {0}) + 1
            data == [ip_version |-> ipv, dist_names |-> dist]
            scopes == [i \in DOMAIN address_scopes \cup {id} |->
                          IF i = id THEN ipv ELSE address_scopes[i]]
        IN  /\ id <= MaxScopes
            /\ \E o \in process_create_address_scope(mappings, scopes, session, data,
                                                     [id |-> id]) :
                  /\ mappings' = o.mappings
                  /\ address_scopes' = IF o.raised = NoExc THEN scopes ELSE address_scopes
                  /\ call' = [op |-> "process_create_address_scope", session |-> session,
                              data |-> data, id |-> id, raised |-> o.raised,
                              db |-> o.db, before |-> mappings]
            /\ UNCHANGED <<port_extn, subnet_extn, network_extn, _mechanism_driver, validVars, mig, nova>>

CreatePort ==
    \E session \in Sessions, data \in PortData :
        LET o == process_create_port(port_extn, session, data, [id |-> "p1", attrs |-> NoKeys])
        IN  /\ "p1" \notin DOMAIN port_extn
            /\ port_extn' = o.store
            /\ call' = [op |-> "process_create_port", session |-> session, data |-> data,
                        raised |-> o.raised, db |-> o.db, result |-> o.result,
                        given |-> [id |-> "p1", attrs |-> NoKeys], writes |-> o.writes]
            /\ UNCHANGED <<address_scopes, mappings, subnet_extn, network_extn, _mechanism_driver,
                         validVars, mig, nova>>

UpdatePort ==
    \E session \in Sessions, data \in PortData :
        LET o == process_update_port(port_extn, session, data,
                                     [id |-> "p1", attrs |-> port_extn["p1"]])
        IN  /\ "p1" \in DOMAIN port_extn
            /\ port_extn' = o.store
            /\ call' = [op |-> "process_update_port", session |-> session, data |-> data,
                        raised |-> o.raised, db |-> o.db, result |-> o.result,
                        given |-> [id |-> "p1", attrs |-> port_extn["p1"]],
                        writes |-> o.writes]
            /\ UNCHANGED <<address_scopes, mappings, subnet_extn, network_extn, _mechanism_driver,
                         validVars, mig, nova>>

ResultLists(bulk) ==
    IF bulk THEN UNION {[1..n -> ResultDicts] : n \in 0..MaxResults}
    ELSE [1..1 -> ResultDicts]

Extend(op, resource, bulk) ==
    \E session \in Sessions, results \in ResultLists(bulk),
       registry_ok \in IF _mechanism_driver = "None" THEN BOOLEAN ELSE {TRUE},
       md_outcome \in {NoExc} \cup MdExceptions,
       db_outcome \in IF resource = "subnet" THEN {NoExc} \cup DbExceptions ELSE {NoExc} :
        LET r == ExtendDictHook(resource, _mechanism_driver, registry_ok, subnet_extn,
                                session, results, md_outcome, db_outcome)
        IN  /\ _mechanism_driver' = r.md
            /\ call' = [op |-> op, session |-> session, raised |-> r.raised,
                        mdRaised |-> r.mdRaised, mdCalls |-> r.mdCalls,
                        lookups |-> r.lookups, log |-> r.log, db |-> r.db,
                        given |-> results, results |-> r.results]

\* The hooks only read the tables.
hookFrame ==
    <<address_scopes, mappings, port_extn, subnet_extn, network_extn, validVars, mig, nova>>

ExtendPortDict ==
    /\ Extend("extend_port_dict", "port", FALSE)
    /\ UNCHANGED hookFrame
ExtendPortDictBulk ==
    /\ Extend("extend_port_dict_bulk", "port", TRUE)
    /\ UNCHANGED hookFrame
ExtendNetworkDict ==
    /\ Extend("extend_network_dict", "network", FALSE)
    /\ UNCHANGED hookFrame
ExtendNetworkDictBulk ==
    /\ Extend("extend_network_dict_bulk", "network", TRUE)
    /\ UNCHANGED hookFrame
ExtendSubnetDict ==
    /\ Extend("extend_subnet_dict", "subnet", FALSE)
    /\ UNCHANGED hookFrame
ExtendSubnetDictBulk ==
    /\ Extend("extend_subnet_dict_bulk", "subnet", TRUE)
    /\ UNCHANGED hookFrame
ExtendAddressScopeDict ==
    /\ Extend("extend_address_scope_dict", "address_scope", FALSE)
    /\ UNCHANGED hookFrame

ExtendOps ==
    {"extend_port_dict", "extend_port_dict_bulk", "extend_network_dict",
     "extend_network_dict_bulk", "extend_subnet_dict", "extend_subnet_dict_bulk",
     "extend_address_scope_dict"}

\* The network dict the plugin hands to process_update_network: the stored
\* attributes as extend_network_dict reports them, the DNs nested under
\* DIST_NAMES.
NetworkDict(id, row) ==
    LET dns == DOMAIN row \cap {EXTERNAL_NETWORK, BD}
        flat == [k \in DOMAIN row \ dns |-> row[k]]
    IN  [id |-> id,
         attrs |-> IF dns = {} THEN flat
                   ELSE DictUpdate(flat,
                           [k \in {DIST_NAMES} |-> PyDict([j \in dns |-> row[j]])])]

\* The plugin runs the hook inside its transaction; when process_create_network
\* raises, the network is not created and no later hook is called for it.
CreateNetwork ==
    \E session \in OneSession, data \in NetCreateData :
        LET given == [id |-> "n1", attrs |-> NoKeys]
            o == process_create_network(network_extn, session, data, given)
        IN  /\ call = NoCall
            /\ network_extn' = o.store
            /\ call' = [op |-> "process_create_network", session |-> session,
                        data |-> data, raised |-> o.raised, db |-> o.db,
                        given |-> given, result |-> o.result, writes |-> o.writes]
            /\ UNCHANGED <<address_scopes, mappings, port_extn, subnet_extn,
                           _mechanism_driver, validVars, mig, nova>>

UpdateNetwork ==
    \E session \in OneSession, data \in NetUpdateData :
        /\ "n1" \in DOMAIN network_extn
        /\ ~(call.op = "process_create_network" /\ call.raised # NoExc)
        /\ LET given == NetworkDict("n1", network_extn["n1"])
               o == process_update_network(network_extn, session, data, given)
           IN  /\ network_extn' = o.store
               /\ call' = [op |-> "process_update_network", session |-> session,
                           data |-> data, raised |-> o.raised, db |-> o.db,
                           given |-> given, result |-> o.result, writes |-> o.writes]
        /\ UNCHANGED <<address_scopes, mappings, port_extn, subnet_extn,
                       _mechanism_driver, validVars, mig, nova>>

CreateSubnet ==
    \E session \in OneSession, data \in SubnetData :
        LET given == [id |-> "s1", attrs |-> NoKeys]
            o == process_create_subnet(subnet_extn, session, data, given)
        IN  /\ "s1" \notin DOMAIN subnet_extn
            /\ subnet_extn' = o.store
            /\ call' = [op |-> "process_create_subnet", session |-> session,
                        data |-> data, raised |-> o.raised, db |-> o.db,
                        given |-> given, result |-> o.result, writes |-> o.writes]
            /\ UNCHANGED <<address_scopes, mappings, port_extn, network_extn,
                           _mechanism_driver, validVars, mig, nova>>

UpdateSubnet ==
    \E session \in OneSession, data \in SubnetData :
        /\ "s1" \in DOMAIN subnet_extn
        /\ LET given == [id |-> "s1", attrs |-> subnet_extn["s1"]]
               o == process_update_subnet(subnet_extn, session, data, given)
           IN  /\ subnet_extn' = o.store
               /\ call' = [op |-> "process_update_subnet", session |-> session,
                           data |-> data, raised |-> o.raised, db |-> o.db,
                           given |-> given, result |-> o.result, writes |-> o.writes]
        /\ UNCHANGED <<address_scopes, mappings, port_extn, network_extn,
                       _mechanism_driver, validVars, mig, nova>>

(***************************************************************************)
(* upgrade(), statement by statement, and downgrade().                     *)
(***************************************************************************)
UpgradeDropConstraint ==
    /\ mig.pc = "start"
    /\ mig' = MigDropConstraint(mig)
    /\ UNCHANGED <<validVars, driverVars, nova>>

UpgradeAddColumn ==
    /\ mig.pc = "dropped"
    /\ mig' = MigAddColumn(mig)
    /\ UNCHANGED <<validVars, driverVars, nova>>

UpgradeCreatePrimaryKey ==
    /\ mig.pc = "added"
    /\ mig' = MigCreatePrimaryKey(mig)
    /\ UNCHANGED <<validVars, driverVars, nova>>

UpgradeBackfill ==
    /\ mig.pc = "keyed"
    /\ \E outcome \in {"ok", "ImportError", "Exception"},
          vrf_of \in [DOMAIN mig.rows -> VrfNames] :
            mig' = MigBackfill(mig, vrf_of, outcome)
    /\ UNCHANGED <<validVars, driverVars, nova>>

Downgrade ==
    /\ mig.pc \in {"start", "done"}
    /\ mig' = downgrade(mig)
    /\ UNCHANGED <<validVars, driverVars, nova>>

(***************************************************************************)
(* The Nova client, as its users call it.                                  *)
(***************************************************************************)
\* NovaClient(): self.client = _get_client().  When Notifier() raises, so does
\* the constructor, and there is no new instance.
NewNovaClient ==
    /\ Len(nova.instances) < MaxClients
    /\ \E notifier_ok \in IF nova.notifiers < MaxClients THEN BOOLEAN ELSE {TRUE} :
          LET g == _get_client(nova.client, nova.notifiers, notifier_ok)
          IN  nova' = [nova EXCEPT !.client = g.client, !.notifiers = g.notifiers,
                                   !.instances = IF g.raised THEN @
                                                 ELSE Append(@, g.client),
                                   !.last = [op |-> "NovaClient", raised |-> g.raised]]
    /\ UNCHANGED <<validVars, driverVars, mig>>

GetServers ==
    /\ nova.instances # <<>>
    /\ \E is_full_update \in FullUpdateValues, since \in SinceValues,
          now \in NowTimes, list_ok \in BOOLEAN :
            nova' = [nova EXCEPT !.last =
                        [op |-> "get_servers", is_full_update |-> is_full_update,
                         changes_since_in_sec |-> since, now |-> now, list_ok |-> list_ok]
                          @@ get_servers(is_full_update, since, now, list_ok)]
    /\ UNCHANGED <<validVars, driverVars, mig>>

(***************************************************************************)
(* Specifications                                                          *)
(***************************************************************************)
\* The validators, each called once on a drawn value.
InitValid ==
    /\ vFn = ""
    /\ vIn \in ValidatorInputs
    /\ vOut = NotCalled
    /\ DriverIdle /\ MigIdle /\ NovaIdle

NextValid ==
    \/ CallValidateApicVlan
    \/ CallValidateApicVlanRange
    \/ CallValidateErspanFlowId
    \/ CallValidateErspanConfigs
    \/ CallValidateDictOrString

SpecValid == InitValid /\ [][NextValid]_vars

\* Address scopes created one after another.
InitScope ==
    /\ ValidIdle /\ MigIdle /\ NovaIdle
    /\ \E t \in InitScopeTables : address_scopes = t.scopes /\ mappings = t.mappings
    /\ port_extn = NoRows /\ subnet_extn = NoRows /\ network_extn = NoRows
    /\ _mechanism_driver = "None" /\ call = NoCall

NextScope == CreateAddressScope

SpecScope == InitScope /\ [][NextScope]_vars

\* The dict-extension hooks, called in any order.
InitExtend ==
    /\ ValidIdle /\ MigIdle /\ NovaIdle
    /\ address_scopes = NoScopes /\ mappings = {} /\ port_extn = NoRows
    /\ subnet_extn \in InitSubnetStores
    /\ network_extn = NoRows
    /\ _mechanism_driver = "None" /\ call = NoCall

NextExtend ==
    \/ ExtendPortDict
    \/ ExtendPortDictBulk
    \/ ExtendNetworkDict
    \/ ExtendNetworkDictBulk
    \/ ExtendSubnetDict
    \/ ExtendSubnetDictBulk
    \/ ExtendAddressScopeDict

SpecExtend == InitExtend /\ [][NextExtend]_vars

\* The migration.
InitMig ==
    /\ ValidIdle /\ DriverIdle /\ NovaIdle
    /\ \E ips \in SUBSET HaIps : mig = MigInit(ips)

NextMig ==
    \/ UpgradeDropConstraint
    \/ UpgradeAddColumn
    \/ UpgradeCreatePrimaryKey
    \/ UpgradeBackfill
    \/ Downgrade

SpecMig == InitMig /\ [][NextMig]_vars

\* Every operation that reaches the database, one per behaviour: a hook called
\* once on drawn tables, or the migration run on a drawn table.
InitDb ==
    /\ ValidIdle /\ NovaIdle
    /\ \E t \in InitScopeTables : address_scopes = t.scopes /\ mappings = t.mappings
    /\ port_extn \in InitPortStores
    /\ subnet_extn \in InitSubnetStores
    /\ network_extn = NoRows
    /\ _mechanism_driver = "None" /\ call = NoCall
    /\ \E ips \in SUBSET HaIps : mig = MigInit(ips)

Untouched == call = NoCall /\ mig.pc = "start"

NextDb ==
    \/ Untouched /\ CreateAddressScope
    \/ Untouched /\ CreatePort
    \/ Untouched /\ UpdatePort
    \/ Untouched /\ ExtendSubnetDict
    \/ Untouched /\ ExtendSubnetDictBulk
    \/ call = NoCall /\ UpgradeDropConstraint
    \/ call = NoCall /\ UpgradeAddColumn
    \/ call = NoCall /\ UpgradeCreatePrimaryKey
    \/ call = NoCall /\ UpgradeBackfill

SpecDb == InitDb /\ [][NextDb]_vars

\* The create and update hooks of one network, one subnet or one port, and the
\* subnet's dict extension.  The tables of the three kinds are disjoint, so a
\* behaviour follows one resource.
InitHooks == ValidIdle /\ DriverIdle /\ MigIdle /\ NovaIdle

OnlyNetworks == subnet_extn = NoRows /\ port_extn = NoRows
OnlySubnets == network_extn = NoRows /\ port_extn = NoRows
OnlyPorts == network_extn = NoRows /\ subnet_extn = NoRows

NextHooks ==
    \/ OnlyNetworks /\ CreateNetwork
    \/ OnlyNetworks /\ UpdateNetwork
    \/ OnlySubnets /\ CreateSubnet
    \/ OnlySubnets /\ UpdateSubnet
    \/ OnlySubnets /\ subnet_extn # NoRows /\ ExtendSubnetDict
    \/ OnlyPorts /\ CreatePort
    \/ OnlyPorts /\ port_extn # NoRows /\ UpdatePort

SpecHooks == InitHooks /\ [][NextHooks]_vars

\* The Nova client.
InitNova == ValidIdle /\ DriverIdle /\ MigIdle /\ NovaIdle

NextNova ==
    \/ NewNovaClient
    \/ GetServers

SpecNova == InitNova /\ [][NextNova]_vars

\* The lazily obtained collaborators: NovaClient() constructions and the
\* extension hooks, each of which reads self._md.
InitLazy == ValidIdle /\ DriverIdle /\ MigIdle /\ NovaIdle

NextLazy ==
    \/ NewNovaClient
    \/ ExtendPortDict
    \/ ExtendPortDictBulk
    \/ ExtendNetworkDict
    \/ ExtendNetworkDictBulk
    \/ ExtendSubnetDict
    \/ ExtendSubnetDictBulk
    \/ ExtendAddressScopeDict

SpecLazy == InitLazy /\ [][NextLazy]_vars

(***************************************************************************)
(* Claims about the validators (checked under SpecValid).                  *)
(***************************************************************************)

\* C1, as stated: _validate_apic_vlan returns no error exactly for the integers
\* 1..4093 and returns an error message for every other integer and for every
\* non-integer input.
C1_VlanAcceptsExactlyIntegersInRange ==
    vFn = "_validate_apic_vlan" =>
        IF vIn.t = "int" /\ vIn.i >= 1 /\ vIn.i <= 4093
        THEN vOut = RetNone
        ELSE vOut.k = "msg"

\* C1, amended: _validate_apic_vlan returns no error exactly for None and for the
\* inputs that int() converts to a value in 1..4093 (integers, and also booleans,
\* floats by truncation and numeric strings); it returns an error message for every
\* input that int() converts to a value outside 1..4093 and for every input other
\* than None on which int() raises ValueError or TypeError.
C1_VlanAcceptsNoneAndIntConvertibleInRange ==
    vFn = "_validate_apic_vlan" =>
        LET r == PyIntOf(vIn)
        IN  /\ vOut = RetNone <=> (vIn = PyNone \/ (r.ok /\ r.v >= 1 /\ r.v <= 4093))
            /\ vIn.t = "int" => (vOut = RetNone <=> (vIn.i >= 1 /\ vIn.i <= 4093))
            /\ (r.ok /\ (r.v < 1 \/ r.v > 4093)) => vOut.k = "msg"
            /\ (vIn # PyNone /\ ~r.ok /\ r.e \in {"ValueError", "TypeError"})
                  => vOut.k = "msg"

\* C1 witness: a non-integer input (the text "4093") was validated and accepted.
C1_Witness_NumericStringAccepted ==
    /\ vFn = "_validate_apic_vlan"
    /\ vIn = PyStr(<<"4", "0", "9", "3">>)
    /\ vOut = RetNone

Triple(e) ==
    <<DictGet(e, ERSPAN_DEST_IP), DictGet(e, ERSPAN_FLOW_ID), DictGet(e, ERSPAN_DIRECTION)>>

ValidErspanEntry(e) ==
    /\ e.t = "dict"
    /\ {ERSPAN_DEST_IP, ERSPAN_FLOW_ID} \subseteq DOMAIN e.d
    /\ ValidateIpAddress(e.d[ERSPAN_DEST_IP]) = RetNone
    /\ e.d[ERSPAN_FLOW_ID].t = "int"
    /\ e.d[ERSPAN_FLOW_ID].i >= 1 /\ e.d[ERSPAN_FLOW_ID].i <= 1023
    /\ DictGet(e, ERSPAN_DIRECTION)
          \in {PyNone, PyStr(<<"i", "n">>), PyStr(<<"o", "u", "t">>),
               PyStr(<<"b", "o", "t", "h">>)}

\* C3: _validate_erspan_configs returns an error message for every input that is
\* not a list and rejects every list in which two entries have the same
\* (dest_ip, flow_id, direction) triple; it returns None for a list of valid
\* entries whose triples are pairwise distinct.
C3_ErspanConfigsRejectsDuplicateTriples ==
    vFn = "_validate_erspan_configs" =>
        /\ vIn.t # "list" => vOut.k = "msg"
        /\ (/\ vIn.t = "list"
            /\ \E m, n \in 1..Len(vIn.l) :
                  /\ m < n
                  /\ vIn.l[m].t = "dict" /\ vIn.l[n].t = "dict"
                  /\ Triple(vIn.l[m]) = Triple(vIn.l[n]))
              => vOut # RetNone
        /\ (/\ vIn.t = "list"
            /\ \A n \in 1..Len(vIn.l) : ValidErspanEntry(vIn.l[n])
            /\ \A m, n \in 1..Len(vIn.l) :
                  m < n => Triple(vIn.l[m]) # Triple(vIn.l[n]))
              => vOut = RetNone

\* C4: on integer flow ids _validate_erspan_flow_id returns no error exactly for
\* 1..1023, and an error message for 0, for every value above 1023 and for every
\* negative value; the same holds of the integer that int() makes of any other
\* input it converts.
C4_FlowIdAcceptsExactly1To1023 ==
    vFn = "_validate_erspan_flow_id" =>
        /\ vIn.t = "int" =>
              /\ vOut = RetNone <=> (vIn.i >= 1 /\ vIn.i <= 1023)
              /\ (vIn.i = 0 \/ vIn.i > 1023 \/ vIn.i < 0) => vOut.k = "msg"
        /\ PyIntOf(vIn).ok =>
              LET v == PyIntOf(vIn).v
              IN  /\ vOut = RetNone <=> (v >= 1 /\ v <= 1023)
                  /\ (v = 0 \/ v > 1023 \/ v < 0) => vOut.k = "msg"

\* C4 witness: the largest flow id was validated and accepted.
C4_Witness_FlowId1023Accepted ==
    /\ vFn = "_validate_erspan_flow_id"
    /\ vIn = PyInt(1023)
    /\ vOut = RetNone

\* C5: every validator reports an invalid input by returning a message and never
\* by raising: each call returns None or a message.
C5_ValidatorsNeverRaise ==
    vFn # "" => vOut.k \in {"none", "msg"}


(***************************************************************************)
(* Claims about the extension driver, the migration and the Nova client.   *)
(***************************************************************************)
GivenVrfDn(data) ==
    /\ data.dist_names.kind = "dict"
    /\ data.dist_names.vrf \notin {Absent, EmptyDn}

\* C2: process_create_address_scope called with a VRF DN raises InvalidInput
\* whenever some mapping of that VRF belongs to an address scope of the same
\* ip_version as the scope being created, and whenever the DN is not a valid VRF
\* DN; in both cases it adds no address-scope mapping.  (SpecScope)
C2_CreateAddressScopeRejectsVrfInUse ==
    (call.op = "process_create_address_scope" /\ GivenVrfDn(call.data)) =>
        LET dn == call.data.dist_names.vrf
            valid == dn \in {Vrf1Dn, Vrf2Dn}
            vrf == [tenant_name |-> "t1", name |-> IF dn = Vrf1Dn THEN "v1" ELSE "v2"]
            in_use == \E m \in call.before :
                         /\ m.vrf = vrf
                         /\ address_scopes[m.scope_id] = call.data.ip_version
        IN  (~valid \/ in_use) =>
                /\ call.raised.name = "InvalidInput"
                /\ mappings = call.before

\* C2 witness: a scope was created with the DN of a VRF that a scope of the same
\* ip_version already maps, and the hook raised.
C2_Witness_VrfInUseRejected ==
    /\ call.op = "process_create_address_scope"
    /\ GivenVrfDn(call.data)
    /\ call.data.dist_names.vrf = Vrf1Dn
    /\ \E m \in call.before :
          /\ m.vrf = [tenant_name |-> "t1", name |-> "v1"]
          /\ address_scopes[m.scope_id] = call.data.ip_version
    /\ call.raised.name = "InvalidInput"

\* C6: when the mechanism driver's call raises e, every extend_*_dict and
\* extend_*_dict_bulk hook raises that same e, retriable or not, after exactly one
\* call of the mechanism driver (no retry), logging at debug level when e is
\* retriable and with the trace otherwise.  (SpecExtend)
C6_ExtendHooksReraiseMdException ==
    (call.op \in ExtendOps /\ call.mdRaised # NoExc) =>
        /\ call.raised = call.mdRaised
        /\ call.mdCalls = 1
        /\ call.log = IF call.mdRaised.retriable THEN "debug" ELSE "exception"

\* C6 witness: the mechanism driver raised a retriable exception in a bulk hook
\* and the hook raised it.
C6_Witness_RetriableReraised ==
    /\ call.op = "extend_subnet_dict_bulk"
    /\ call.mdRaised = [name |-> "DBDeadlock", retriable |-> TRUE]
    /\ call.raised = call.mdRaised

NewSchema(m) ==
    /\ m.pk = <<"ha_ip_address", "vrf">>
    /\ m.vrf_column = [type |-> "String", length |-> 64, nullable |-> FALSE]

IsPrefix(a, b) == Len(a) <= Len(b) /\ a = SubSeq(b, 1, Len(a))

\* C8: after upgrade() the table has a non-nullable string column vrf and the
\* primary key (ha_ip_address, vrf); the statements run in the order drop old
\* primary key, add column, create primary key, backfill, and the backfill is
\* attempted only once the new primary key exists; downgrade() changes nothing.
\* (SpecMig)
C8_UpgradeOrderAndSchema ==
    /\ [](/\ mig.pc = "done" => NewSchema(mig)
          /\ IsPrefix(mig.ops, <<"drop_constraint", "add_column",
                                 "create_primary_key", "backfill">>)
          /\ mig.pc = "done" => Len(mig.ops) = 4
          /\ mig.backfill # "not attempted" => NewSchema(mig))
    /\ [][Downgrade => mig' = mig]_vars

\* C8 witness: upgrade() completed with a successful backfill of a table with rows.
C8_Witness_UpgradeDone ==
    /\ mig.pc = "done"
    /\ mig.backfill = "ok"
    /\ DOMAIN mig.rows # {}

CallDb == IF call = NoCall THEN {} ELSE call.db

\* C9, as stated: no operation opens its own database session or commits by
\* itself; every database access of the hooks and of the migration uses what the
\* caller supplied.  (SpecDb)
C9_NoOperationOpensASession ==
    /\ \A a \in CallDb \cup mig.db : ~a.session.own
    /\ mig.sessions = {}

\* C9, amended: no extension driver hook opens its own session or commits: every
\* database access of a hook uses the session its caller supplied.  The migration
\* makes its schema changes through the caller's Alembic operations context, but
\* for the backfill upgrade() opens one autocommit session of its own on the
\* caller's connection, and only the backfill runs in it.  (SpecDb)
C9_HooksUseCallerSessionMigrationOpensOne ==
    /\ \A a \in CallDb : a.session = call.session /\ ~a.session.own
    /\ \A a \in mig.db :
          IF a.fn = "do_ha_ip_vrf_name_insertion"
          THEN a.session.own /\ a.session.autocommit /\ a.session \in mig.sessions
          ELSE a.session = AlembicContext
    /\ Cardinality(mig.sessions) <= 1
    /\ mig.sessions # {} => mig.backfill \in {"ok", "Exception"}

\* C9 witness: the migration's backfill ran in a session upgrade() opened.
C9_Witness_BackfillInOwnSession ==
    /\ mig.backfill = "ok"
    /\ \E a \in mig.db : a.fn = "do_ha_ip_vrf_name_insertion" /\ a.session.own

\* C10: get_servers issues exactly one list call, with detailed=False and
\* limit=-1; its search options hold all_tenants=1 and, when is_full_update is
\* true, nothing else; when it is false they also hold 'changes-since', the text
\* of the current time minus changes_since_in_sec seconds, and deleted='false'.
\* (SpecNova)
C10_GetServersSearchOptions ==
    nova.last.op = "get_servers" =>
        LET c == nova.last.list_calls[1]
            full == nova.last.is_full_update \in {PyBool(TRUE), PyInt(1)}
        IN  /\ Len(nova.last.list_calls) = 1
            /\ c.detailed = FALSE
            /\ c.limit = -1
            /\ c.search_opts["all_tenants"] = PyInt(1)
            /\ full => DOMAIN c.search_opts = {"all_tenants"}
            /\ ~full =>
                  /\ DOMAIN c.search_opts = {"all_tenants", "changes-since", "deleted"}
                  /\ c.search_opts["changes-since"]
                        = DatetimeStr(nova.last.now - nova.last.changes_since_in_sec)
                  /\ c.search_opts["deleted"] = PyStr(<<"f", "a", "l", "s", "e">>)
            /\ (~full /\ nova.last.now = 86400 /\ nova.last.changes_since_in_sec = 60) =>
                  c.search_opts["changes-since"]
                     = [t |-> "str", date |-> 0, hh |-> 23, mm |-> 59, ss |-> 0]

\* C10 witness: an incremental poll one minute back from midnight.
C10_Witness_IncrementalPoll ==
    /\ nova.last.op = "get_servers"
    /\ nova.last.is_full_update = PyBool(FALSE)
    /\ nova.last.now = 86400
    /\ nova.last.changes_since_in_sec = 60
    /\ nova.last.list_calls[1].search_opts["changes-since"].hh = 23

(***************************************************************************)
(* Claims about sequences of hooks.                                        *)
(***************************************************************************)
\* C11: after any sequence of process_create_address_scope calls, successful or
\* failing, no two address-scope mappings of the same VRF belong to address
\* scopes of the same ip_version: a VRF is mapped by at most one address scope
\* per IP version.  (SpecScope)
C11_OneScopePerVrfAndIpVersion ==
    \A m1 \in mappings : \A m2 \in mappings :
        (m1.vrf = m2.vrf /\ m1.scope_id # m2.scope_id) =>
            /\ m1.scope_id \in DOMAIN address_scopes
            /\ m2.scope_id \in DOMAIN address_scopes
            /\ address_scopes[m1.scope_id] # address_scopes[m2.scope_id]

\* C11 witness: one VRF is mapped by an IPv4 and an IPv6 scope, and the call that
\* tried to map it a third time was rejected.
C11_Witness_TwoVersionsThenRejected ==
    /\ \E m1 \in mappings : \E m2 \in mappings :
          /\ m1.vrf = m2.vrf
          /\ m1.scope_id # m2.scope_id
    /\ call.op = "process_create_address_scope"
    /\ call.raised.name = "InvalidInput"
    /\ call.before = mappings

(***************************************************************************)
(* Claims about the network, subnet and port hooks.                        *)
(***************************************************************************)
NetworkOps == {"process_create_network", "process_update_network"}

\* The SVI flag validate_bgp_params used in the last network hook call: data's
\* on create, the network dict's on update
CallIsSvi ==
    IF call.op = "process_create_network"
    THEN PyTruth(Get(call.data, SVI, PyBool(FALSE)))
    ELSE PyTruth(Get(call.given.attrs, SVI, PyNone))

\* The last network hook call asked for BGP
CallAsksBgp ==
    \/ PyTruth(Get(call.data, BGP, PyBool(FALSE)))
    \/ Get(call.data, BGP_TYPE, PyText("default_export")) # PyText("default_export")
    \/ Get(call.data, BGP_ASN, PyText("0")) # PyText("0")

\* C12: process_create_network and process_update_network raise InvalidInput
\* before any extension-table write when the network is not SVI and the request
\* enables BGP or gives a bgp_type other than 'default_export' or a bgp_asn other
\* than "0"; so every stored non-SVI network has BGP disabled, type
\* 'default_export' and asn "0".  On update the SVI flag is the one of result,
\* not the one of data.  (SpecHooks)
C12_NonSviNetworksHaveNoBgp ==
    /\ \A id \in DOMAIN network_extn :
          ~PyTruth(network_extn[id][SVI]) =>
              /\ ~PyTruth(network_extn[id][BGP])
              /\ network_extn[id][BGP_TYPE] = PyText("default_export")
              /\ network_extn[id][BGP_ASN] = PyText("0")
    /\ (call.op \in NetworkOps /\ ~CallIsSvi /\ CallAsksBgp) =>
          /\ call.raised = InvalidInput("Network has to be created as svi type")
          /\ call.writes = <<>>
          /\ call.db = {}
          /\ call.result = call.given

\* C12 witness: an update of a stored non-SVI network whose data says SVI and
\* enables BGP was rejected, and the stored row is as before.
C12_Witness_UpdateOfNonSviRejected ==
    /\ call.op = "process_update_network"
    /\ SVI \in DOMAIN call.data /\ PyTruth(call.data[SVI])
    /\ PyTruth(Get(call.data, BGP, PyBool(FALSE)))
    /\ ~PyTruth(call.given.attrs[SVI])
    /\ call.raised.name = "InvalidInput"
    /\ "n1" \in DOMAIN network_extn
    /\ ~PyTruth(network_extn["n1"][BGP])

UpdateOps == {"process_update_port", "process_update_subnet", "process_update_network"}

\* C13: the update hooks never write an attribute whose schema entry has
\* allow_put False (apic:svi, apic:nat_type, apic:distinguished_names,
\* apic:multi_ext_nets, apic:active_active_aap, apic:epg_subnet), whatever keys
\* data contains.  (SpecHooks)
C13_UpdateHooksWriteOnlyAllowPutAttributes ==
    call.op \in UpdateOps =>
        \A i \in 1..Len(call.writes) : \A k \in DOMAIN call.writes[i] : allow_put[k]

\* C14: process_update_network: for each key of update_attrs present in data,
\* after a successful call the stored value and result[key] both equal
\* data[key].  (SpecHooks)
C14_UpdateNetworkStoresGivenValues ==
    (call.op = "process_update_network" /\ call.raised = NoExc) =>
        \A k \in update_attrs \cap DOMAIN call.data :
            /\ k \in DOMAIN network_extn["n1"]
            /\ network_extn["n1"][k] = call.data[k]
            /\ k \in DOMAIN call.result.attrs
            /\ call.result.attrs[k] = call.data[k]

\* C15: whenever process_create_network raises InvalidInput (BGP asked for a
\* non-SVI network, an invalid ExternalNetwork DN, an invalid BridgeDomain DN) it
\* has made no set_network_extn_db write and has not modified result.
\* (SpecHooks)
C15_FailedCreateNetworkLeavesNothing ==
    (call.op = "process_create_network" /\ call.raised.name = "InvalidInput") =>
        /\ call.writes = <<>>
        /\ call.db = {}
        /\ call.result = call.given

\* The last call was a process_create_network given a valid DN under key in
\* data's apic:distinguished_names, and it returned normally
CreatedWithDn(key) ==
    /\ call.op = "process_create_network"
    /\ call.raised = NoExc
    /\ DnOf(call.data, key) # PyNone

\* C16: process_create_network given a valid ExternalNetwork DN stores the DN;
\* for a non-SVI network it also stores nat_type (default 'distributed') and
\* external_cidrs (default ['0.0.0.0/0']), for an SVI network it stores
\* neither.  In result the DN appears only nested under
\* result['apic:distinguished_names'], never as a top-level key; likewise for a
\* BridgeDomain DN.  (SpecHooks)
C16_CreateNetworkStoresAndNestsDns ==
    /\ CreatedWithDn(EXTERNAL_NETWORK) =>
          LET row == network_extn["n1"]
              dn == DnOf(call.data, EXTERNAL_NETWORK)
          IN  /\ ExternalNetwork_from_dn(dn)
              /\ EXTERNAL_NETWORK \in DOMAIN row /\ row[EXTERNAL_NETWORK] = dn
              /\ IF CallIsSvi
                 THEN {NAT_TYPE, EXTERNAL_CIDRS} \cap DOMAIN row = {}
                 ELSE /\ {NAT_TYPE, EXTERNAL_CIDRS} \subseteq DOMAIN row
                      /\ row[NAT_TYPE] = Get(call.data, NAT_TYPE, PyText("distributed"))
                      /\ row[EXTERNAL_CIDRS] =
                            Get(call.data, EXTERNAL_CIDRS, PyList(<<"0.0.0.0/0">>))
              /\ EXTERNAL_NETWORK \notin DOMAIN call.result.attrs
              /\ call.result.attrs[DIST_NAMES].d[EXTERNAL_NETWORK] = dn
    /\ CreatedWithDn(BD) =>
          LET dn == DnOf(call.data, BD)
          IN  /\ BridgeDomain_from_dn(dn)
              /\ BD \in DOMAIN network_extn["n1"] /\ network_extn["n1"][BD] = dn
              /\ BD \notin DOMAIN call.result.attrs
              /\ call.result.attrs[DIST_NAMES].d[BD] = dn
    /\ call.op = "process_create_network" =>
          {EXTERNAL_NETWORK, BD} \cap DOMAIN call.result.attrs = {}

\* C16 witness: a non-SVI network was created with a valid ExternalNetwork DN,
\* a valid BridgeDomain DN and no nat_type or external_cidrs in data.
C16_Witness_ExternalNetworkWithDefaults ==
    /\ CreatedWithDn(EXTERNAL_NETWORK)
    /\ CreatedWithDn(BD)
    /\ ~CallIsSvi
    /\ {NAT_TYPE, EXTERNAL_CIDRS} \cap DOMAIN call.data = {}
    /\ network_extn["n1"][NAT_TYPE] = PyText("distributed")
    /\ DOMAIN call.result.attrs[DIST_NAMES].d = {EXTERNAL_NETWORK, BD}

\* C16 witness of the SVI case: an SVI network was created with a valid
\* ExternalNetwork DN and stores the DN alone.
C16_Witness_SviStoresDnOnly ==
    /\ CreatedWithDn(EXTERNAL_NETWORK)
    /\ CallIsSvi
    /\ NAT_TYPE \in DOMAIN call.data
    /\ NAT_TYPE \notin DOMAIN network_extn["n1"]

\* The step is a successful extend_subnet_dict of subnet s1
ReportsSubnet ==
    /\ call'.op = "extend_subnet_dict"
    /\ call'.raised = NoExc
    /\ call'.given[1].id = "s1"

\* C17: the subnet attributes round-trip with the schema defaults: after
\* process_create_subnet(data) the six attributes stored, and then reported by
\* extend_subnet_dict, equal the values given in data, or False, False, False,
\* False, True, False for those omitted; a later process_update_subnet changes
\* only the attributes present in its data among snat_host_pool,
\* snat_subnet_only, advertised_externally and shared_between_vrfs, and leaves
\* the others as stored.  (SpecHooks)
C17_SubnetAttributesRoundTrip ==
    /\ [][(call.op = "process_create_subnet" /\ ReportsSubnet) =>
            \A k \in SubnetKeys :
                /\ subnet_extn["s1"][k] = Get(call.data, k, SubnetDefault(k))
                /\ call'.results[1].attrs[k] = Get(call.data, k, SubnetDefault(k))]_vars
    /\ [][ReportsSubnet =>
            \A k \in SubnetKeys : call'.results[1].attrs[k] = subnet_extn["s1"][k]]_vars
    /\ [][(call'.op = "process_update_subnet" /\ "s1" \in DOMAIN subnet_extn) =>
            \A k \in SubnetKeys :
                subnet_extn'["s1"][k] =
                    IF k \in SubnetUpdateKeys \cap DOMAIN call'.data
                    THEN call'.data[k]
                    ELSE subnet_extn["s1"][k]]_vars

\* C17 witness: extend_subnet_dict reports a subnet that was created with
\* defaults (advertised_externally True, epg_subnet False) and then updated to
\* snat_host_pool True.
C17_Witness_UpdatedSubnetReported ==
    /\ call.op = "extend_subnet_dict"
    /\ call.raised = NoExc
    /\ call.given[1].id = "s1"
    /\ call.results[1].attrs[SNAT_HOST_POOL] = PyBool(TRUE)
    /\ call.results[1].attrs[ADVERTISED_EXTERNALLY] = PyBool(TRUE)
    /\ call.results[1].attrs[EPG_SUBNET] = PyBool(FALSE)
    /\ call.results[1].attrs[SHARED_BETWEEN_VRFS] = PyBool(FALSE)

\* The keys that make the last update hook call act
UpdatableKeys ==
    CASE call.op = "process_update_port" -> {ERSPAN_CONFIG}
      [] call.op = "process_update_subnet" -> SubnetUpdateKeys
      [] call.op = "process_update_network" -> update_attrs

\* C18: an update that carries no updatable extension attribute is a no-op:
\* process_update_port without apic:erspan_config in data, process_update_subnet
\* without any of its four updatable keys, and process_update_network without any
\* key of update_attrs each make no extension-table write, raise nothing and
\* leave result unchanged.  (SpecHooks)
C18_UpdateWithoutUpdatableKeysIsNoOp ==
    /\ (call.op \in UpdateOps /\ UpdatableKeys \cap DOMAIN call.data = {}) =>
          /\ call.writes = <<>>
          /\ call.db = {}
          /\ call.raised = NoExc
          /\ call.result = call.given
    /\ [][(call'.op \in UpdateOps /\ UpdatableKeys' \cap DOMAIN call'.data = {}) =>
            UNCHANGED <<port_extn, subnet_extn, network_extn>>]_vars

\* C18 witness: process_update_network was called on a stored non-SVI network
\* with data carrying only apic:svi, which is not a key of update_attrs, and
\* wrote nothing.
C18_Witness_NetworkUpdateOfSviOnly ==
    /\ call.op = "process_update_network"
    /\ DOMAIN call.data = {SVI}
    /\ call.writes = <<>>
    /\ ~PyTruth(network_extn["n1"][SVI])

(***************************************************************************)
(* Claims about the lazily obtained collaborators.                         *)
(***************************************************************************)
\* C19: the lazily obtained collaborators are looked up at most once.  Over any
\* sequence of NovaClient() constructions the module-level Nova client handle is
\* created by at most one Notifier() call, and every NovaClient instance shares
\* that handle; after the first successful _md access the extension driver
\* returns the same mechanism driver on every later access without consulting
\* the plugin registry again.  (SpecLazy)
C19_CollaboratorsLookedUpAtMostOnce ==
    /\ [](\A i \in 1..Len(nova.instances) :
            nova.client # 0 /\ nova.instances[i] = nova.client)
    /\ [][nova.client # 0 =>
            (nova'.client = nova.client /\ nova'.notifiers = nova.notifiers)]_vars
    /\ [][_mechanism_driver # "None" =>
            /\ _mechanism_driver' = _mechanism_driver
            /\ call' # call => call'.lookups = 0]_vars
    /\ [][(_mechanism_driver = "None" /\ call' # call) => call'.lookups = 1]_vars

\* C19 witness: a Notifier() call raised, a later one made the handle, two
\* NovaClient instances hold it, and a hook used the mechanism driver found by an
\* earlier hook without a registry lookup.
C19_Witness_SharedHandleAndCachedDriver ==
    /\ nova.notifiers = 2
    /\ nova.client = 2
    /\ nova.instances = <<2, 2>>
    /\ _mechanism_driver = "apic_aim"
    /\ call.op \in ExtendOps
    /\ call.lookups = 0
    /\ call.mdCalls = 1

==========================================================================
